---- MODULE Spec2Model ----
(***************************************************************************)
(* Extraction and discovery engine of the Shopify insights fetcher.        *)
(*                                                                         *)
(* The module holds several state machines over disjoint groups of         *)
(* variables, each with its own specification:                             *)
(*   SpecFetch    WebScraper.fetch_page / fetch_page_sync (core/utils.py)  *)
(*   SpecDedup    the three _deduplicate_products functions, applied to    *)
(*                bounded lists of product records                         *)
(*   SpecHero     HeroProductExtractor.extract_async                       *)
(*   SpecCatalog  ShopifyInsightsService._fetch_product_catalog and its    *)
(*                fallback with the concurrent product-page fetches        *)
(*   SpecInsights ShopifyInsightsService.fetch_insights as called by the   *)
(*                API endpoints of main.py                                 *)
(*   SpecCompetitors  CompetitorAnalyzer.find_competitors                  *)
(*   SpecText     TextCleaner.extract_price, ShopifyDetector               *)
(*                .is_shopify_store, SocialMediaExtractor.extract and      *)
(*                _sort_hero_products_by_relevance, applied to bounded     *)
(*                inputs                                                   *)
(*   SpecProfile  the hero products, the FAQs and the catalog of one       *)
(*                profile built by fetch_insights                          *)
(*   SpecAnalysis CompetitorAnalyzer.analyze_competitors                   *)
(*   SpecDiscover ShopifyInsightsService._discover_product_urls and the    *)
(*                hand-over of the discovered URLs to the page fetches     *)
(* A specification leaves the variables of the other machines unchanged.   *)
(***************************************************************************)
EXTENDS Integers, Sequences, FiniteSets, TLC

(***************************************************************************)
(* Bounds of the model (not program constants).                            *)
(***************************************************************************)
\* largest explicit `retries` argument passed to fetch_page
MaxRetriesArg == 5
\* longest list of product records handed to a dedup function
MaxDedupLen == 3
\* largest number of products the catalog loaders deliver to the hero selector
MaxHeroCatalog == 11
\* how often two consecutive loaded products differ in their tag list
MaxKindChanges == 2
\* largest number of products.json pages requested after the first one
MaxCatalogPages == 2
\* largest number of entries of a products.json page that are written out
MaxPageEntries == 2
\* largest number of product URLs the fallback discovery finds
MaxFallbackUrls == 4
\* largest number of product elements on one HTML page
MaxRawPage == 2
\* number of distinct product URLs the sources of the discovery can link to
MaxDiscovered == 120
\* largest number of policy records the policy extractor returns
MaxPolicies == 2
\* largest number of search queries that return candidates
MaxSearchQueries == 1
\* largest number of tokens of a text handed to extract_price
MaxPriceTokens == 4
\* largest number of anchors of a page handed to the social extractor
MaxAnchors == 3
\* largest number of products handed to _sort_hero_products_by_relevance
MaxSortLen == 2
\* largest number of entries of the store's products.json
MaxProfileEntries == 2
\* largest number of FAQ elements of the main page
MaxFaqElements == 2
\* largest number of competitors find_competitors hands to the analysis
MaxCandidates == 4

(***************************************************************************)
(* Program constants.                                                      *)
(***************************************************************************)
\* settings.max_retries
MaxRetriesDefault == 2
\* settings.rate_limit_delay (seconds)
RateLimitDelay == 1
\* cap of the exponential backoff (seconds)
BackoffCap == 10
\* hero_products[:10] when a homepage-tagged product was selected
HomepageLimit == 10
\* hero_products[:6] otherwise, and the limit of the position-based fallback
DefaultHeroLimit == 6
\* max_products of the ProductCatalogExtractor of the hero selector
HeroHtmlMaxProducts == 100
\* asyncio.Semaphore(3) of the fallback path
FallbackConcurrency == 3
\* the fallback fetches product_urls[:20]
FallbackPageLimit == 20
\* _discover_product_urls returns list(product_urls)[:100]
DiscoverUrlCap == 100
\* max_products of the extractor of the main page on the fallback path
MainPageMaxProducts == 50
\* max_products of the extractor of one product page on the fallback path
ProductPageMaxProducts == 10

VARIABLES
    \* ---- WebScraper.fetch_page ----
    fpc,              \* position of fetch_page: "idle", "async", "sync", "done"
    hasSession,       \* self.session is set (the async context was entered)
    retries,          \* the effective `retries` of this call
    attempt,          \* loop variable of `for attempt in range(retries + 1)`
    asyncAttempts,    \* number of session.get requests issued so far
    softOnly,         \* every asynchronous attempt so far ended in a soft failure
    got404,           \* an asynchronous attempt received status 404
    lastAsync,        \* outcome of the latest asynchronous attempt ("none" before)
    backoffs,         \* the backoff sleeps performed, in order (seconds)
    rateSleeps,       \* the rate-limit sleeps performed after a success, in order
    syncReqs,         \* requests.get calls of fetch_page_sync: [verify, outcome]
    reqsAfter404,     \* requests of any kind issued after the 404
    result,           \* "pending", "content", "Failure" (None) or "raised"
    \* ---- _deduplicate_products applied to a list ----
    dpc,              \* "input", "once" (dedup applied), "twice" (applied again)
    dInput,           \* the list of product records handed to dedup
    dOnce,            \* dedup(dInput), per implementation
    dTwice,           \* dedup(dedup(dInput)), per implementation
    \* ---- HeroProductExtractor.extract_async ----
    hpc,              \* "load" (the loaders deliver products) or "done"
    hStore,           \* the products the catalog loaders deliver, in order
    hLoaded,          \* all_products handed to the tag filter
    hPath,            \* how the result was made: "tags", "position", "exception"
    hResult,          \* the list extract_async returned
    \* ---- ShopifyInsightsService._fetch_product_catalog ----
    cpc,              \* "start", "json_fetching", "paging", "page_fetching",
                      \* "fallback", "fallback_tasks", "done"
    cFirst,           \* what the first products.json fetch delivered
    cAll,             \* all_products of the primary path
    cLastPage,        \* products_data: the last page accepted
    cPage,            \* `page`: the number of the last page requested
    cFallbackRan,     \* _fetch_product_catalog_fallback was called
    cMain,            \* main_page_products of the fallback
    cTasks,           \* the fetch_product_page tasks: [pc, result] per URL
    cArrived,         \* history: the products of the pages, in the order the fetches ended
    cSem,             \* the value of the semaphore
    cCatalog          \* the list _fetch_product_catalog returned

VARIABLES
    upc,              \* position in _discover_product_urls and its caller
    uColl,            \* index of the collections URL fetched next (1..3)
    uUrls,            \* product_urls: the set of URLs harvested so far
    uReturned,        \* the list _discover_product_urls returned
    uHanded           \* the URLs for which a fetch_product_page task was created

VARIABLES
    ipc,              \* position in the endpoint and in fetch_insights
    iEndpoint,        \* the endpoint that was called
    iInclude,         \* request.include_competitor_analysis
    iBadAnchor,       \* the main page has an anchor whose href urljoin rejects
    iShopify,         \* what ShopifyDetector.is_shopify_store returned
    iPolicies,        \* all_policies: the records of the policy extractor
    iSlots,           \* the four policy slots of the profile
    iAbsorbed,        \* the failures of later steps that were caught
    iCause,           \* the step whose exception left fetch_insights
    iError,           \* str(e) of that exception
    iStatus           \* the status code of the answer (0: none yet)

VARIABLES
    kpc,              \* position in find_competitors
    kOriginal,        \* website_url, as [scheme, netloc]
    kCategory,        \* what _extract_brand_category returned
    kQueries,         \* number of queries performed
    kCandidates,      \* all_competitors
    kUnique,          \* what _deduplicate_and_validate_competitors returned
    kUsedFallback,    \* the static list was substituted
    kResult,          \* the list find_competitors returned
    kBackend,         \* the backend the running query tries next (from 1)
    kLog              \* the backends the latest query has called, in order

VARIABLES
    tpc,              \* "input" before the function is applied, "done" after
    tKind,            \* which function the input is for
    tText,            \* the argument of extract_price
    tPrice,           \* its result: <<>> for None, <<match>> otherwise
    tContent,         \* html_content of is_shopify_store
    tUrl,             \* url of is_shopify_store
    tShopify,         \* its result
    tAnchors,         \* the href of each anchor of the page, in document order
    tHandles,         \* the SocialHandles the extractor returned
    tProducts,        \* the argument of _sort_hero_products_by_relevance
    tSorted           \* the list it returned

VARIABLES
    ppc,              \* the step of fetch_insights that runs next
    pJson,            \* what the store answers for products.json: <<>> for
                      \* Failure, <<entries>> for a product list
    pShown,           \* whether the sections of the main page show products
    pElements,        \* the FAQ elements of the main page, in document order
    pHero,            \* insights.hero_products
    pFaqs,            \* insights.faqs
    pCatalog          \* insights.product_catalog

VARIABLES
    apc,              \* position of analyze_competitors
    aCompetitors,     \* the list find_competitors returned, in discovery order
    aIndex,           \* the candidate the loop is at (from 1)
    aOutcomes,        \* for each candidate profiled so far, whether fetch_insights
                      \* and model_dump succeeded
    aInsights,        \* competitor_insights
    aDelayed,         \* time.sleep(1) has run since the latest profiling ended
    aResult           \* analysis_result

fetchVars == <<fpc, hasSession, retries, attempt, asyncAttempts, softOnly, got404,
               lastAsync, backoffs, rateSleeps, syncReqs, reqsAfter404, result>>

dedupVars == <<dpc, dInput, dOnce, dTwice>>

heroVars == <<hpc, hStore, hLoaded, hPath, hResult>>

catalogVars == <<cpc, cFirst, cAll, cLastPage, cPage, cFallbackRan, cMain, cTasks,
                 cArrived, cSem, cCatalog>>

discoverVars == <<upc, uColl, uUrls, uReturned, uHanded>>

insightsVars == <<ipc, iEndpoint, iInclude, iBadAnchor, iShopify, iPolicies, iSlots,
                  iAbsorbed, iCause, iError, iStatus>>

competitorVars == <<kpc, kOriginal, kCategory, kQueries, kCandidates, kUnique,
                    kUsedFallback, kResult, kBackend, kLog>>

textVars ==
    <<tpc, tKind, tText, tPrice, tContent, tUrl, tShopify, tAnchors, tHandles,
      tProducts, tSorted>>

analysisVars == <<apc, aCompetitors, aIndex, aOutcomes, aInsights, aDelayed, aResult>>

profileVars == <<ppc, pJson, pShown, pElements, pHero, pFaqs, pCatalog>>

vars == <<fetchVars, dedupVars, heroVars, catalogVars, discoverVars, insightsVars,
          competitorVars, textVars, profileVars, analysisVars>>

\* What the steps of one machine leave alone.
FetchFrame == UNCHANGED <<dedupVars, heroVars, catalogVars, discoverVars, insightsVars,
    competitorVars, textVars,
    profileVars, analysisVars>>
DedupFrame == UNCHANGED <<fetchVars, heroVars, catalogVars, discoverVars, insightsVars,
    competitorVars, textVars,
    profileVars, analysisVars>>
HeroFrame == UNCHANGED <<fetchVars, dedupVars, catalogVars, discoverVars, insightsVars,
    competitorVars, textVars,
    profileVars, analysisVars>>
CatalogFrame == UNCHANGED <<fetchVars, dedupVars, heroVars, discoverVars, insightsVars,
    competitorVars, textVars,
    profileVars, analysisVars>>
DiscoverFrame == UNCHANGED <<fetchVars, dedupVars, heroVars, catalogVars, insightsVars,
    competitorVars, textVars,
    profileVars, analysisVars>>
CompetitorFrame ==
    UNCHANGED <<fetchVars, dedupVars, heroVars, catalogVars, discoverVars, insightsVars, textVars,
    profileVars, analysisVars>>
TextFrame ==
    UNCHANGED <<fetchVars, dedupVars, heroVars, catalogVars, discoverVars, insightsVars,
                competitorVars,
    profileVars, analysisVars>>
ProfileFrame ==
    UNCHANGED <<fetchVars, dedupVars, heroVars, catalogVars, discoverVars, insightsVars,
                competitorVars, textVars, analysisVars>>
AnalysisFrame ==
    UNCHANGED <<fetchVars, dedupVars, heroVars, catalogVars, discoverVars, insightsVars,
                competitorVars, textVars, profileVars>>
InsightsFrame == UNCHANGED <<fetchVars, dedupVars, heroVars, catalogVars, discoverVars,
    competitorVars, textVars,
    profileVars, analysisVars>>

\* The other machines at rest.
DedupIdle ==
    /\ dpc = "input"
    /\ dInput = <<>>
    /\ dOnce = <<>>
    /\ dTwice = <<>>

HeroIdle ==
    /\ hpc = "load"
    /\ hStore = <<>>
    /\ hLoaded = <<>>
    /\ hPath = "none"
    /\ hResult = <<>>

CatalogIdle ==
    /\ cpc = "start"
    /\ cFirst = "none"
    /\ cAll = <<>>
    /\ cLastPage = [full |-> FALSE, entries |-> <<>>]
    /\ cPage = 1
    /\ cFallbackRan = FALSE
    /\ cMain = <<>>
    /\ cTasks = <<>>
    /\ cArrived = <<>>
    /\ cSem = FallbackConcurrency
    /\ cCatalog = <<>>

DiscoverIdle ==
    /\ upc = "collections"
    /\ uColl = 1
    /\ uUrls = {}
    /\ uReturned = <<>>
    /\ uHanded = <<>>

\* the profile's policy slots before any assignment (None)
NoPolicy == [title |-> <<>>, url |-> "None"]
EmptySlots ==
    [privacy_policy |-> NoPolicy, return_policy |-> NoPolicy,
     refund_policy |-> NoPolicy, terms_of_service |-> NoPolicy]

InsightsIdle ==
    /\ ipc = "idle"
    /\ iEndpoint = "none"
    /\ iInclude = FALSE
    /\ iBadAnchor = FALSE
    /\ iShopify = FALSE
    /\ iPolicies = <<>>
    /\ iSlots = EmptySlots
    /\ iAbsorbed = {}
    /\ iCause = "none"
    /\ iError = <<>>
    /\ iStatus = 0

CompetitorIdle ==
    /\ kpc = "idle"
    /\ kOriginal = [scheme |-> "", netloc |-> <<>>]
    /\ kCategory = "none"
    /\ kQueries = 0
    /\ kCandidates = <<>>
    /\ kUnique = <<>>
    /\ kUsedFallback = FALSE
    /\ kResult = <<>>
    /\ kBackend = 0
    /\ kLog = <<>>

\* SocialHandles(): every platform None
NoHandles ==
    [instagram |-> <<>>, facebook |-> <<>>, twitter |-> <<>>, tiktok |-> <<>>,
     youtube |-> <<>>, linkedin |-> <<>>, pinterest |-> <<>>]

TextIdle ==
    /\ tpc = "input"
    /\ tKind = "none"
    /\ tText = <<>>
    /\ tPrice = <<>>
    /\ tContent = <<>>
    /\ tUrl = <<>>
    /\ tShopify = FALSE
    /\ tAnchors = <<>>
    /\ tHandles = NoHandles
    /\ tProducts = <<>>
    /\ tSorted = <<>>

ProfileIdle ==
    /\ ppc = "hero"
    /\ pJson = <<>>
    /\ pShown = FALSE
    /\ pElements = <<>>
    /\ pHero = <<>>
    /\ pFaqs = <<>>
    /\ pCatalog = <<>>

\* analysis_result before the function returns
NoAnalysis ==
    [competitors_found |-> 0, competitors_analyzed |-> 0, competitor_insights |-> <<>>]

AnalysisIdle ==
    /\ apc = "idle"
    /\ aCompetitors = <<>>
    /\ aIndex = 1
    /\ aOutcomes = <<>>
    /\ aInsights = <<>>
    /\ aDelayed = FALSE
    /\ aResult = NoAnalysis

Min(a, b) == IF a < b THEN a ELSE b

\* the elements of a list
Range(s) == {s[i] : i \in 1 .. Len(s)}

(***************************************************************************)
(* WebScraper.fetch_page                                                   *)
(***************************************************************************)
\* What one asynchronous attempt can end in: a response status, or an
\* exception raised inside `async with self.session.get(...)`.
AsyncOutcomes == {"200", "404", "403", "429", "500", "timeout", "client_error",
                  "unexpected"}

\* The if/elif chain on response.status and the three except clauses.
AsyncClass(o) ==
    CASE o = "200" -> "success"
      [] o = "404" -> "not_found"
      [] o \in {"403", "429"} -> "soft"
      [] o = "500" -> "soft"
      [] o \in {"timeout", "client_error", "unexpected"} -> "soft"

BackoffUncapped(a) == 2 ^ a

\* wait_time = min(2 ** attempt, 10)
Backoff(a) == Min(2 ^ a, BackoffCap)

\* `if retries is None: retries = settings.max_retries`
\* The Optional[int] argument is <<>> for None and <<n>> for the integer n.
EffectiveRetries(arg) == IF arg = <<>> THEN MaxRetriesDefault ELSE arg[1]

RetryArgs == {<<>>} \cup {<<n>> : n \in 0 .. MaxRetriesArg}

FetchIdle ==
    /\ fpc = "idle"
    /\ hasSession = FALSE
    /\ retries = 0
    /\ attempt = 0
    /\ asyncAttempts = 0
    /\ softOnly = TRUE
    /\ got404 = FALSE
    /\ lastAsync = "none"
    /\ backoffs = <<>>
    /\ rateSleeps = <<>>
    /\ syncReqs = <<>>
    /\ reqsAfter404 = 0
    /\ result = "pending"

FetchInit ==
    FetchIdle /\ DedupIdle /\ HeroIdle /\ CatalogIdle /\ DiscoverIdle /\ InsightsIdle
        /\ CompetitorIdle
        /\ TextIdle
        /\ ProfileIdle
        /\ AnalysisIdle

SessionUnchecked(session) == TRUE

\* `if not self.session: ... return None`: self.session is None until
\* __aenter__ has created the ClientSession
SessionAvailable(session) == session

\* fetch_page is entered: the retries default and the session check.
FetchCall(arg, session) ==
    /\ fpc = "idle"
    /\ hasSession' = session
    /\ retries' = EffectiveRetries(arg)
    /\ IF SessionAvailable(session)
          THEN /\ fpc' = "async"
               /\ result' = result
          ELSE /\ fpc' = "done"
               /\ result' = "Failure"
    /\ UNCHANGED <<attempt, asyncAttempts, softOnly, got404, lastAsync, backoffs,
                   rateSleeps, syncReqs, reqsAfter404>>
    /\ FetchFrame

\* One iteration of the retry loop: the request, the classification of its
\* outcome, and the backoff sleep that ends the iteration.
AsyncAttempt(o) ==
    /\ fpc = "async"
    /\ asyncAttempts' = asyncAttempts + 1
    /\ lastAsync' = o
    /\ reqsAfter404' = IF got404 THEN reqsAfter404 + 1 ELSE reqsAfter404
    /\ CASE AsyncClass(o) = "success" ->
                /\ rateSleeps' = Append(rateSleeps, RateLimitDelay)
                /\ result' = "content"
                /\ fpc' = "done"
                /\ softOnly' = FALSE
                /\ UNCHANGED <<attempt, got404, backoffs>>
         [] AsyncClass(o) = "not_found" ->
                \* `break`: leaves the loop, and line 103 runs
                /\ got404' = TRUE
                /\ softOnly' = FALSE
                /\ fpc' = "sync"
                /\ UNCHANGED <<attempt, backoffs, rateSleeps, result>>
         [] AsyncClass(o) = "soft" ->
                /\ IF attempt < retries
                      THEN /\ backoffs' = Append(backoffs, Backoff(attempt))
                           /\ attempt' = attempt + 1
                           /\ fpc' = "async"
                      ELSE /\ fpc' = "sync"
                           /\ UNCHANGED <<attempt, backoffs>>
                /\ UNCHANGED <<softOnly, got404, rateSleeps, result>>
    /\ UNCHANGED <<hasSession, retries, syncReqs>>
    /\ FetchFrame

(***************************************************************************)
(* WebScraper.fetch_page_sync                                              *)
(***************************************************************************)
\* What one requests.get + raise_for_status can end in: a 2xx response, an
\* SSLError, another RequestException (HTTPError of raise_for_status, Timeout,
\* ConnectionError), or an exception that is no RequestException.
SyncOutcomes == {"ok", "ssl_error", "request_error", "other_exception"}

SyncStepSSLOnly(verify, o) ==
    CASE o = "ok" -> "return"
      [] o = "ssl_error" -> IF verify THEN "continue" ELSE "raise"
      [] o = "request_error" -> "break"
      [] o = "other_exception" -> "raise"

\* The body of `for verify_ssl in [True, False]`: how the iteration ends.
SyncStep(verify, o) ==
    CASE o = "ok" -> "return"
      [] o = "ssl_error" -> IF verify THEN "continue" ELSE "raise"
      [] o = "request_error" -> IF verify THEN "continue" ELSE "break"
      [] o = "other_exception" -> "raise"

OuterExceptMissing(step) == IF step = "raise" THEN "raised" ELSE "Failure"

\* The outer `try ... except Exception` of fetch_page_sync and its final
\* `return None`: what the function returns when the loop ended with `step`
\* (a break, the end of the list, or an exception leaving the inner try).
OuterExcept(step) == "Failure"

\* One iteration of the verification loop of fetch_page_sync.
SyncRequest(o) ==
    /\ fpc = "sync"
    /\ LET verify == (Len(syncReqs) = 0)
           step   == SyncStep(verify, o)
       IN  /\ syncReqs' = Append(syncReqs, [verify |-> verify, outcome |-> o])
           /\ reqsAfter404' = IF got404 THEN reqsAfter404 + 1 ELSE reqsAfter404
           /\ CASE step = "return" ->
                       /\ result' = "content"
                       /\ fpc' = "done"
                [] step = "continue" /\ verify ->
                       /\ result' = result
                       /\ fpc' = "sync"
                [] OTHER ->
                       /\ result' = OuterExcept(step)
                       /\ fpc' = "done"
    /\ UNCHANGED <<hasSession, retries, attempt, asyncAttempts, softOnly, got404,
                   lastAsync, backoffs, rateSleeps>>
    /\ FetchFrame

FetchNext ==
    \/ \E arg \in RetryArgs, session \in BOOLEAN : FetchCall(arg, session)
    \/ \E o \in AsyncOutcomes : AsyncAttempt(o)
    \/ \E o \in SyncOutcomes : SyncRequest(o)

SpecFetch == FetchInit /\ [][FetchNext]_vars

(***************************************************************************)
(* Claims about the fetcher, checked under SpecFetch.                      *)
(***************************************************************************)
\* min(2^i, 10), written out for the backoff after attempt i
ExpectedBackoff(i) == IF 2 ^ i < 10 THEN 2 ^ i ELSE 10

\* C1: when every asynchronous attempt ended in a soft failure, the
\* synchronous fallback is entered only after exactly retries+1 asynchronous
\* attempts, and the sleep between attempt i and attempt i+1 (from 0) is
\* min(2^i, 10) seconds; while attempts remain no synchronous request is made.
C1_SoftFailuresExhaustRetries ==
    (hasSession /\ softOnly) =>
        /\ \A i \in 1 .. Len(backoffs) : backoffs[i] = ExpectedBackoff(i - 1)
        /\ fpc = "async" => /\ Len(backoffs) = asyncAttempts
                            /\ asyncAttempts <= retries
                            /\ syncReqs = <<>>
        /\ (fpc = "sync" \/ syncReqs # <<>>) =>
                            /\ asyncAttempts = retries + 1
                            /\ Len(backoffs) = retries

\* C1 witness: five soft failures were retried, the sixth ended the loop, the
\* capped backoff was slept, and the synchronous fallback is entered.
C1_Witness ==
    /\ fpc = "sync" /\ softOnly /\ hasSession
    /\ retries = 5 /\ asyncAttempts = 6
    /\ backoffs = <<1, 2, 4, 8, 10>>

\* C2: after an asynchronous attempt received 404 no further request of any
\* kind is issued for the URL, and the call returns Failure.
C2_NoRequestAfter404 ==
    got404 => /\ reqsAfter404 = 0
              /\ syncReqs = <<>>
              /\ fpc = "done" => result = "Failure"

\* C3 as stated: the unverified request is made only after the verified
\* request failed with an SSL error; any other failure of the verified
\* request ends the fallback; at most two requests.
C3_UnverifiedOnlyAfterSSLError ==
    /\ Len(syncReqs) <= 2
    /\ Len(syncReqs) >= 1 => syncReqs[1].verify
    /\ Len(syncReqs) = 2 => /\ ~syncReqs[2].verify
                            /\ syncReqs[1].outcome = "ssl_error"

\* C3 amended: the first request is certificate-verified; the second,
\* unverified request is made exactly when the verified one failed with a
\* requests exception (SSL error, HTTP error status, timeout, connection
\* error); an exception of another kind, or a success, ends the fallback after
\* one request; there are never more than two requests.
C3_UnverifiedAfterAnyRequestError ==
    /\ Len(syncReqs) <= 2
    /\ Len(syncReqs) >= 1 => syncReqs[1].verify
    /\ Len(syncReqs) = 2 => /\ ~syncReqs[2].verify
                            /\ syncReqs[1].outcome \in {"ssl_error", "request_error"}
    /\ (fpc = "done" /\ Len(syncReqs) = 1) =>
            syncReqs[1].outcome \in {"ok", "other_exception"}
    /\ (fpc = "sync" /\ Len(syncReqs) = 1) =>
            syncReqs[1].outcome \in {"ssl_error", "request_error"}

\* C3 witness: the verified request failed with a request error that is no
\* SSL error, and the unverified request was made.
C3_Witness ==
    /\ Len(syncReqs) = 2
    /\ syncReqs[1].outcome = "request_error"
    /\ ~syncReqs[2].verify

\* C4: fetch_page never raises: whatever the attempts and the fallback end
\* in, a finished call returned the content or the Failure sentinel.
C4_NeverRaises ==
    /\ result \in {"pending", "content", "Failure"}
    /\ fpc = "done" => result \in {"content", "Failure"}

\* C4 witness: both the verified and the unverified request failed with an
\* SSL error (the handler re-raises), after an unexpected exception in the
\* last asynchronous attempt, and the call returned Failure.
C4_Witness ==
    /\ fpc = "done"
    /\ lastAsync = "unexpected"
    /\ Len(syncReqs) = 2
    /\ syncReqs[2].outcome = "ssl_error"
    /\ result = "Failure"

(***************************************************************************)
(* Product records and the three _deduplicate_products functions.          *)
(*                                                                         *)
(* A name is a sequence of characters, so that str.lower() is computed     *)
(* character by character.  None is the string "None".                     *)
(***************************************************************************)
\* str.lower() on one character of the names used here
LowerChar(c) ==
    CASE c = "A" -> "a"
      [] c = "B" -> "b"
      [] c = "C" -> "c"
      [] c = "D" -> "d"
      [] c = "E" -> "e"
      [] c = "F" -> "f"
      [] c = "G" -> "g"
      [] c = "H" -> "h"
      [] c = "I" -> "i"
      [] c = "J" -> "j"
      [] c = "K" -> "k"
      [] c = "L" -> "l"
      [] c = "M" -> "m"
      [] c = "N" -> "n"
      [] c = "O" -> "o"
      [] c = "P" -> "p"
      [] c = "Q" -> "q"
      [] c = "R" -> "r"
      [] c = "S" -> "s"
      [] c = "T" -> "t"
      [] c = "U" -> "u"
      [] c = "V" -> "v"
      [] c = "W" -> "w"
      [] c = "X" -> "x"
      [] c = "Y" -> "y"
      [] c = "Z" -> "z"
      [] OTHER -> c

\* str.lower()
Lower(s) == [i \in 1 .. Len(s) |-> LowerChar(s[i])]

\* ProductModel, with the fields the functions below read
ProductModel(name, price, image_url, product_url, description, tags) ==
    [name |-> name, price |-> price, image_url |-> image_url,
     product_url |-> product_url, description |-> description, tags |-> tags]

\* key = (product.name, product.product_url)
ServiceKey(p) == <<p.name, p.product_url>>

RECURSIVE ServiceDedupInverted(_, _, _)
ServiceDedupInverted(products, seen, unique) ==
    IF products = <<>>
       THEN unique
       ELSE LET p == Head(products)
                key == ServiceKey(p)
            IN  IF key \in seen
                   THEN ServiceDedupInverted(Tail(products), seen, Append(unique, p))
                   ELSE ServiceDedupInverted(Tail(products), seen \cup {key}, unique)

\* The loop of ShopifyInsightsService._deduplicate_products over the rest of
\* the list, with the `seen` set and the `unique_products` list so far.
RECURSIVE ServiceDedupLoop(_, _, _)
ServiceDedupLoop(products, seen, unique) ==
    IF products = <<>>
       THEN unique
       ELSE LET p == Head(products)
                key == ServiceKey(p)
            IN  IF key \notin seen
                   THEN ServiceDedupLoop(Tail(products), seen \cup {key}, Append(unique, p))
                   ELSE ServiceDedupLoop(Tail(products), seen, unique)

\* ShopifyInsightsService._deduplicate_products
Service_deduplicate_products(products) == ServiceDedupLoop(products, {}, <<>>)

\* identifier = (product.name.lower() if product.name else '',
\*               product.product_url if product.product_url else '')
ExtractorIdentifier(p) ==
    <<IF p.name # <<>> THEN Lower(p.name) ELSE <<>>,
      IF p.product_url \notin {"None", ""} THEN p.product_url ELSE "">>

\* The loop of ProductExtractor._deduplicate_products.
RECURSIVE ExtractorDedupLoop(_, _, _)
ExtractorDedupLoop(products, seen, unique) ==
    IF products = <<>>
       THEN unique
       ELSE LET p == Head(products)
                identifier == ExtractorIdentifier(p)
            IN  IF identifier \notin seen /\ p.name # <<>>
                   THEN ExtractorDedupLoop(Tail(products), seen \cup {identifier},
                                           Append(unique, p))
                   ELSE ExtractorDedupLoop(Tail(products), seen, unique)

\* ProductExtractor._deduplicate_products
Extractor_deduplicate_products(products) == ExtractorDedupLoop(products, {}, <<>>)

\* The loop of HeroProductExtractor._deduplicate_products.
RECURSIVE HeroDedupLoop(_, _, _)
HeroDedupLoop(products, seen, unique) ==
    IF products = <<>>
       THEN unique
       ELSE LET p == Head(products)
                identifier == ExtractorIdentifier(p)
            IN  IF identifier \notin seen /\ p.name # <<>>
                   THEN HeroDedupLoop(Tail(products), seen \cup {identifier},
                                      Append(unique, p))
                   ELSE HeroDedupLoop(Tail(products), seen, unique)

\* HeroProductExtractor._deduplicate_products
Hero_deduplicate_products(products) == HeroDedupLoop(products, {}, <<>>)

(***************************************************************************)
(* SpecDedup: the dedup functions applied once and twice to a list.        *)
(***************************************************************************)
DedupNames == {<<>>, <<"H", "a", "t">>, <<"h", "a", "t">>, <<"C", "a", "p">>}
DedupUrls == {"None", "/products/hat"}
DedupPrices == {"None", "$5"}

DedupProducts ==
    {ProductModel(n, pr, "None", u, "None", {}) :
        n \in DedupNames, u \in DedupUrls, pr \in DedupPrices}

\* All lists over S of length at most n
ListsUpTo(S, n) == UNION {[1 .. k -> S] : k \in 0 .. n}

DedupAll(products) ==
    [service   |-> Service_deduplicate_products(products),
     extractor |-> Extractor_deduplicate_products(products),
     hero      |-> Hero_deduplicate_products(products)]

DedupInit ==
    /\ dpc = "input"
    /\ dInput \in ListsUpTo(DedupProducts, MaxDedupLen)
    /\ dOnce = <<>>
    /\ dTwice = <<>>
    /\ FetchIdle
    /\ HeroIdle
    /\ CatalogIdle
    /\ DiscoverIdle
    /\ InsightsIdle
    /\ CompetitorIdle
    /\ TextIdle
    /\ ProfileIdle
    /\ AnalysisIdle

\* each implementation applied to the input list
DedupApply ==
    /\ dpc = "input"
    /\ dOnce' = DedupAll(dInput)
    /\ dpc' = "once"
    /\ UNCHANGED <<dInput, dTwice>>
    /\ DedupFrame

\* each implementation applied to its own output
DedupApplyAgain ==
    /\ dpc = "once"
    /\ dTwice' = [service   |-> Service_deduplicate_products(dOnce.service),
                  extractor |-> Extractor_deduplicate_products(dOnce.extractor),
                  hero      |-> Hero_deduplicate_products(dOnce.hero)]
    /\ dpc' = "twice"
    /\ UNCHANGED <<dInput, dOnce>>
    /\ DedupFrame

DedupNext == DedupApply \/ DedupApplyAgain

SpecDedup == DedupInit /\ [][DedupNext]_vars

(***************************************************************************)
(* Claims about deduplication, checked under SpecDedup.                    *)
(***************************************************************************)
\* the identity key of the data model: (lowercased name, product_url)
IdentityKey(p) == <<Lower(p.name), p.product_url>>

\* no two records of the list share an identity key
NoDuplicateIdentity(out) ==
    \A i, j \in 1 .. Len(out) : i # j => IdentityKey(out[i]) # IdentityKey(out[j])

\* exactly the first record of each identity key of `inp` is kept, in order:
\* out is inp restricted to the positions that are first for their key
FirstSeenPositions(inp) ==
    {i \in 1 .. Len(inp) :
        \A j \in 1 .. (i - 1) : IdentityKey(inp[j]) # IdentityKey(inp[i])}

RECURSIVE Restrict(_, _, _)
Restrict(inp, keep, i) ==
    IF i > Len(inp) THEN <<>>
    ELSE IF i \in keep THEN <<inp[i]>> \o Restrict(inp, keep, i + 1)
    ELSE Restrict(inp, keep, i + 1)

KeepsFirstSeenInOrder(inp, out) == out = Restrict(inp, FirstSeenPositions(inp), 1)

\* C8: for a list of valid product records (the name is required), the
\* output of each _deduplicate_products has no two records with names equal
\* up to letter case and the same product_url, and consists of the first-seen
\* record of every identity key, in input order.
C8_OneRecordPerIdentityKey ==
    (dpc # "input" /\ \A i \in 1 .. Len(dInput) : dInput[i].name # <<>>) =>
        \A impl \in {"service", "extractor", "hero"} :
            /\ NoDuplicateIdentity(dOnce[impl])
            /\ KeepsFirstSeenInOrder(dInput, dOnce[impl])

\* C9: dedup(dedup(x)) = dedup(x) for each of the three implementations.
C9_DedupIdempotent ==
    dpc = "twice" => /\ dTwice.service = dOnce.service
                     /\ dTwice.extractor = dOnce.extractor
                     /\ dTwice.hero = dOnce.hero

\* C9 witness: the first application removed a record (a repeated key and a
\* record with an empty name), and the second application has run.
C9_Witness ==
    /\ dpc = "twice"
    /\ Len(dInput) = 3
    /\ Len(dOnce.service) = 2
    /\ Len(dOnce.extractor) = 1
    /\ dTwice.service = dOnce.service

HeroTags ==
    {"homepage", "hero", "featured", "main", "highlight", "spotlight",
     "bestseller", "best seller", "best-seller", "top seller", "top-seller",
     "trending", "popular", "most popular", "staff pick", "staff-pick",
     "editor choice", "editor-choice", "recommended", "must have", "must-have",
     "signature", "flagship", "star product", "star-product",
     "front page", "front-page", "home", "banner", "promo", "promotional"}

\* `if product.tags:` and `'homepage' in product_tags_set`
IsHomepageTagged(p) == p.tags # {} /\ "homepage" \in p.tags

\* the elif branch: another hero tag, and not homepage
IsOtherHeroTagged(p) ==
    p.tags # {} /\ "homepage" \notin p.tags /\ (HeroTags \cap p.tags) # {}

FilterInCatalogOrder(products) ==
    LET Qualifies(p) == IsHomepageTagged(p) \/ IsOtherHeroTagged(p)
    IN  SelectSeq(products, Qualifies)

\* _filter_hero_products_by_tags: homepage_products + hero_products, returned
\* at the first return statement that applies (the sort below is not reached)
Filter_hero_products_by_tags(products) ==
    LET homepage_products == SelectSeq(products, IsHomepageTagged)
        hero_products     == SelectSeq(products, IsOtherHeroTagged)
        all_hero_products == homepage_products \o hero_products
    IN  IF homepage_products # <<>> THEN all_hero_products
        ELSE IF hero_products # <<>> THEN hero_products
        ELSE <<>>

\* s[:n]
Take(s, n) == SubSeq(s, 1, Min(Len(s), n))

\* the position score of _prioritize_hero_products for the product at index
\* i (from 0) of the deduplicated list
PositionScore(i, p) ==
    (100 - i)
    + (IF p.image_url # "None" THEN 20 ELSE 0)
    + (IF p.price # "None" THEN 15 ELSE 0)
    + (IF p.description # "None" THEN 10 ELSE 0)

\* list.sort(key=score, reverse=True) is stable: an item goes behind every
\* item whose score is at least its own
RECURSIVE InsertByScore(_, _)
InsertByScore(sorted, x) ==
    IF sorted = <<>> THEN <<x>>
    ELSE IF Head(sorted).score >= x.score
            THEN <<Head(sorted)>> \o InsertByScore(Tail(sorted), x)
            ELSE <<x>> \o sorted

RECURSIVE SortByScoreDesc(_)
SortByScoreDesc(scored) ==
    IF scored = <<>> THEN <<>>
    ELSE InsertByScore(SortByScoreDesc(SubSeq(scored, 1, Len(scored) - 1)),
                       scored[Len(scored)])

\* _prioritize_hero_products
Prioritize_hero_products(products) ==
    LET scored == [i \in 1 .. Len(products) |->
                      [score |-> PositionScore(i - 1, products[i]),
                       product |-> products[i]]]
        sorted == SortByScoreDesc(scored)
    IN  [i \in 1 .. Len(sorted) |-> sorted[i].product]

\* the score _sort_hero_products_by_relevance gives a product
RelevanceScore(p) ==
    (IF p.tags # {}
        THEN Cardinality(HeroTags \cap p.tags) * 10
             + (IF "homepage" \in p.tags THEN 50
                ELSE IF "hero" \in p.tags THEN 30
                ELSE IF "featured" \in p.tags THEN 20
                ELSE IF {"bestseller", "best seller", "best-seller"} \cap p.tags # {}
                     THEN 15
                ELSE 0)
        ELSE 0)
    + (IF p.image_url # "None" THEN 10 ELSE 0)
    + (IF p.price # "None" THEN 5 ELSE 0)
    + (IF p.description # "None" THEN 5 ELSE 0)

\* _sort_hero_products_by_relevance
Sort_hero_products_by_relevance(products) ==
    LET scored == [i \in 1 .. Len(products) |->
                      [score |-> RelevanceScore(products[i]),
                       product |-> products[i]]]
        sorted == SortByScoreDesc(scored)
    IN  [i \in 1 .. Len(sorted) |-> sorted[i].product]

\* _extract_hero_products_by_position on the candidates found in the hero,
\* featured, banner, carousel and collection sections of the page
Extract_hero_products_by_position(candidates) ==
    Take(Prioritize_hero_products(Hero_deduplicate_products(candidates)),
         DefaultHeroLimit)

\* the tail of extract_async after the catalog is loaded: the filter, the
\* fallback when it selects nothing, and the two limits
ExtractTail(all_products, candidates) ==
    LET tagged        == Filter_hero_products_by_tags(all_products)
        hero_products == IF tagged = <<>>
                            THEN Extract_hero_products_by_position(candidates)
                            ELSE tagged
    IN  [path   |-> IF tagged = <<>> THEN "position" ELSE "tags",
         result |-> IF \E i \in 1 .. Len(hero_products) :
                          "homepage" \in hero_products[i].tags
                       THEN Take(hero_products, HomepageLimit)
                       ELSE Take(hero_products, DefaultHeroLimit)]

(***************************************************************************)
(* SpecHero: the loaders deliver a catalog, then extract_async runs.       *)
(***************************************************************************)
\* The tag lists of the loaded products: a homepage product that also carries
\* another hero tag, a hero product, a product with tags none of which is a
\* hero tag, and a product without tags.
HeroTagKinds == {{"homepage", "featured"}, {"hero"}, {"sale"}, {}}

PoolDigits == <<"1", "2", "3", "4", "5", "6", "7", "8">>
PoolUrls == <<"/products/1", "/products/2", "/products/3", "/products/4",
              "/products/5", "/products/6", "/products/7", "/products/8">>

\* The i-th product a loader delivers: names and URLs repeat after the pool is
\* used up (the repeated name differs in letter case), every second product
\* has an image, every third a price.
HeroStoreProduct(i, tags) ==
    LET k == ((i - 1) % Len(PoolDigits)) + 1
    IN  ProductModel(<<IF i > Len(PoolDigits) THEN "P" ELSE "p", PoolDigits[k]>>,
                     IF i % 3 = 0 THEN "$5" ELSE "None",
                     IF i % 2 = 0 THEN "img" ELSE "None",
                     PoolUrls[k],
                     "None",
                     tags)

KindChanges(products) ==
    Cardinality({i \in 1 .. (Len(products) - 1) :
                    products[i].tags # products[i + 1].tags})

\* The candidates of the position-based fallback: the sections of the page
\* show either nothing or every product of the store; a product extracted
\* from a page element carries no tags.
PositionCandidates(shown) ==
    IF shown
       THEN [i \in 1 .. Len(hStore) |-> [hStore[i] EXCEPT !.tags = {}]]
       ELSE <<>>

HeroInit ==
    HeroIdle /\ FetchIdle /\ DedupIdle /\ CatalogIdle /\ DiscoverIdle /\ InsightsIdle
        /\ CompetitorIdle
        /\ TextIdle
        /\ ProfileIdle
        /\ AnalysisIdle

\* a loader delivers one more product
HeroStoreAdd(tags) ==
    /\ hpc = "load"
    /\ Len(hStore) < MaxHeroCatalog
    /\ LET next == Append(hStore, HeroStoreProduct(Len(hStore) + 1, tags))
       IN  /\ KindChanges(next) <= MaxKindChanges
           /\ hStore' = next
    /\ UNCHANGED <<hpc, hLoaded, hPath, hResult>>
    /\ HeroFrame

\* extract_async when _load_all_products_from_json delivers the products
HeroExtractJson(shown) ==
    /\ hpc = "load"
    /\ hStore # <<>>
    /\ LET out == ExtractTail(hStore, PositionCandidates(shown))
       IN  /\ hLoaded' = hStore
           /\ hPath' = out.path
           /\ hResult' = out.result
    /\ hpc' = "done"
    /\ UNCHANGED hStore
    /\ HeroFrame

\* extract_async when the JSON load delivers nothing and the products come
\* from _load_all_products_from_html (ProductCatalogExtractor.extract)
HeroExtractHtml(shown) ==
    /\ hpc = "load"
    /\ LET all_products == Take(Extractor_deduplicate_products(hStore),
                                HeroHtmlMaxProducts)
           out == ExtractTail(all_products, PositionCandidates(shown))
       IN  /\ hLoaded' = all_products
           /\ hPath' = out.path
           /\ hResult' = out.result
    /\ hpc' = "done"
    /\ UNCHANGED hStore
    /\ HeroFrame

\* extract_async when an exception leaves the try block
HeroExtractException(shown) ==
    /\ hpc = "load"
    /\ hLoaded' = hStore
    /\ hPath' = "exception"
    /\ hResult' = Extract_hero_products_by_position(PositionCandidates(shown))
    /\ hpc' = "done"
    /\ UNCHANGED hStore
    /\ HeroFrame

HeroNext ==
    \/ \E tags \in HeroTagKinds : HeroStoreAdd(tags)
    \/ \E shown \in BOOLEAN : HeroExtractJson(shown)
    \/ \E shown \in BOOLEAN : HeroExtractHtml(shown)
    \/ \E shown \in BOOLEAN : HeroExtractException(shown)

SpecHero == HeroInit /\ [][HeroNext]_vars

(***************************************************************************)
(* Claims about the hero selector, checked under SpecHero.                 *)
(***************************************************************************)
HasHomepage(p) == "homepage" \in p.tags

\* C5: if a loaded product carries 'homepage', every returned item tagged
\* 'homepage' precedes every returned item not tagged so and at most 10 items
\* are returned; if none does (also on the position-based fallback and on the
\* exception path), at most 6 items are returned.
C5_HomepageFirstAndLimits ==
    hpc = "done" =>
        IF \E i \in 1 .. Len(hLoaded) : HasHomepage(hLoaded[i])
           THEN /\ Len(hResult) <= 10
                /\ \A i, j \in 1 .. Len(hResult) :
                       (HasHomepage(hResult[i]) /\ ~HasHomepage(hResult[j])) => i < j
           ELSE Len(hResult) <= 6

\* C5 witness: eleven products qualified, a hero product was loaded before
\* a homepage product, and the ten returned items hold both kinds.
C5_Witness ==
    /\ hpc = "done" /\ hPath = "tags"
    /\ Len(hLoaded) = 11
    /\ ~HasHomepage(hLoaded[1]) /\ hLoaded[1].tags = {"hero"}
    /\ HasHomepage(hLoaded[11])
    /\ Len(hResult) = 10
    /\ HasHomepage(hResult[1])
    /\ ~HasHomepage(hResult[10])

\* C5 witness of the other half: no homepage tag was loaded, more than six
\* products were candidates, and six were returned.
C5_WitnessNoHomepage ==
    /\ hpc = "done"
    /\ Len(hLoaded) > 6
    /\ \A i \in 1 .. Len(hLoaded) : ~HasHomepage(hLoaded[i])
    /\ Len(hResult) = 6

\* the index in the loaded catalog of the i-th returned item
CatalogIndexOf(i) == CHOOSE k \in 1 .. Len(hLoaded) : hLoaded[k] = hResult[i]

\* C21: the tag-qualified candidates the hero selector returns are ordered by
\* descending relevance score, and candidates of equal score keep their
\* catalog order.
C21_TaggedHeroesByDescendingScore ==
    (hpc = "done" /\ hPath = "tags") =>
        \A i, j \in 1 .. Len(hResult) :
            i < j =>
                \/ RelevanceScore(hResult[i]) > RelevanceScore(hResult[j])
                \/ /\ RelevanceScore(hResult[i]) = RelevanceScore(hResult[j])
                   /\ CatalogIndexOf(i) < CatalogIndexOf(j)

(***************************************************************************)
(* ShopifyInsightsService._fetch_product_catalog: the products.json path.  *)
(*                                                                         *)
(* A page of products.json is [full, entries]: `entries` are the entries   *)
(* written out, `full` says that the page holds 250 entries (the entries   *)
(* not written out are not modelled).                                      *)
(***************************************************************************)
\* `== 250`: Shopify's page size in the paging loop
ShopifyPageSize == 250

\* titles and handles of the entries of a page: a product, the same product
\* with its title in lower case, and an entry without a title
CatalogEntries ==
    {[title |-> <<"H", "a", "t">>, handle |-> "hat"],
     [title |-> <<"h", "a", "t">>, handle |-> "hat"],
     [title |-> <<>>, handle |-> "cap"]}

CatalogPages ==
    {[full |-> f, entries |-> e] :
        f \in BOOLEAN, e \in ListsUpTo(CatalogEntries, MaxPageEntries)}

\* f"{base_url}/products/{handle}" if handle else None
ProductUrlOfHandle(handle) ==
    CASE handle = "" -> "None"
      [] handle = "hat" -> "/products/hat"
      [] handle = "cap" -> "/products/cap"

\* _parse_shopify_product_json: <<>> stands for the None of an entry without
\* a title, <<product>> for a parsed product
Parse_shopify_product_json(entry) ==
    IF entry.title = <<>>
       THEN <<>>
       ELSE <<ProductModel(entry.title, "None", "None",
                           ProductUrlOfHandle(entry.handle), "None", {})>>

\* the loop `for product_data in ...: product = parse; if product: append`
RECURSIVE ParseEntries(_)
ParseEntries(entries) ==
    IF entries = <<>> THEN <<>>
    ELSE Parse_shopify_product_json(Head(entries)) \o ParseEntries(Tail(entries))

\* len(products_data.get('products', []))
PageLen(page) == IF page.full THEN ShopifyPageSize ELSE Len(page.entries)

\* what a fetch of products.json delivers: Failure (None), content that
\* json.loads or the code reading it rejects, a JSON object without the
\* 'products' key, or a JSON object with a product list
JsonKinds == {"failure", "not_json", "no_products_key", "products"}

\* the pages a server can answer with: a full page is not empty
PageOf(kind, page) ==
    /\ page \in CatalogPages
    /\ kind # "products" => page = [full |-> FALSE, entries |-> <<>>]
    /\ page.full => page.entries # <<>>

\* _fetch_product_catalog issues the first fetch of products.json
CatalogStart ==
    /\ cpc = "start"
    /\ cpc' = "json_fetching"
    /\ UNCHANGED <<cArrived, cFirst, cAll, cLastPage, cPage, cFallbackRan, cMain, cTasks,
                   cSem, cCatalog>>
    /\ CatalogFrame

\* the first fetch returns: lines 160-174 and the except clause of line 197
CatalogFirstResponse(kind, page) ==
    /\ cpc = "json_fetching"
    /\ PageOf(kind, page)
    /\ cFirst' = IF kind = "products" /\ page.entries = <<>> THEN "empty" ELSE kind
    /\ CASE kind = "failure" ->
                \* `if json_content:` is false: nothing else runs
                /\ cpc' = "done"
                /\ cCatalog' = cAll
                /\ UNCHANGED <<cAll, cLastPage>>
         [] kind = "not_json" ->
                \* the exception reaches `except Exception`: the fallback
                /\ cpc' = "fallback"
                /\ UNCHANGED <<cAll, cLastPage, cCatalog>>
         [] kind = "no_products_key" ->
                /\ cpc' = "done"
                /\ cCatalog' = cAll
                /\ UNCHANGED <<cAll, cLastPage>>
         [] kind = "products" ->
                /\ cAll' = cAll \o ParseEntries(page.entries)
                /\ cLastPage' = page
                /\ IF PageLen(page) = ShopifyPageSize
                      THEN cpc' = "paging" /\ UNCHANGED cCatalog
                      ELSE cpc' = "done" /\ cCatalog' = cAll'
    /\ UNCHANGED <<cArrived, cPage, cFallbackRan, cMain, cTasks, cSem>>
    /\ CatalogFrame

\* the paging loop requests the next page
CatalogPageFetch ==
    /\ cpc = "paging"
    /\ cPage <= MaxCatalogPages
    /\ cPage' = cPage + 1
    /\ cpc' = "page_fetching"
    /\ UNCHANGED <<cArrived, cFirst, cAll, cLastPage, cFallbackRan, cMain, cTasks, cSem,
                   cCatalog>>
    /\ CatalogFrame

\* a page fetch returns: lines 181-195
CatalogPageResponse(kind, page) ==
    /\ cpc = "page_fetching"
    /\ PageOf(kind, page)
    /\ IF kind = "products" /\ page.entries # <<>>
          THEN /\ cAll' = cAll \o ParseEntries(page.entries)
               /\ cLastPage' = page
               /\ IF PageLen(page) = ShopifyPageSize
                     THEN cpc' = "paging" /\ UNCHANGED cCatalog
                     ELSE cpc' = "done" /\ cCatalog' = cAll'
          ELSE \* every other case breaks out of the loop
               /\ cpc' = "done"
               /\ cCatalog' = cAll
               /\ UNCHANGED <<cAll, cLastPage>>
    /\ UNCHANGED <<cArrived, cFirst, cPage, cFallbackRan, cMain, cTasks, cSem>>
    /\ CatalogFrame

(***************************************************************************)
(* _fetch_product_catalog_fallback                                         *)
(***************************************************************************)
\* the products an HTML page shows
PageProducts ==
    {ProductModel(<<"H", "a", "t">>, "None", "None", "/products/hat", "None",
        {}),
     ProductModel(<<"h", "a", "t">>, "None", "None", "/products/hat", "None",
         {})}

RawPages == ListsUpTo(PageProducts, MaxRawPage)

\* ProductCatalogExtractor(soup, url, max_products).extract(): the products
\* found on the page, deduplicated, cut to max_products
CatalogExtract(raw, max_products) ==
    Take(Extractor_deduplicate_products(raw), max_products)

\* what fetch_product_page returns: the products of the page, or [] when the
\* fetch returned Failure or an exception was caught
FetchProductPageResult(kind, raw) ==
    IF kind = "html" THEN CatalogExtract(raw, ProductPageMaxProducts) ELSE <<>>

SemaphoreIgnored(value) == TRUE

\* asyncio.Semaphore: acquire does not wait when the value is positive
SemaphoreFree(value) == value > 0

RECURSIVE ConcatResults(_)
\* `for result in results: all_products.extend(result)`, in task order
ConcatResults(tasks) ==
    IF tasks = <<>> THEN <<>>
    ELSE Head(tasks).result \o ConcatResults(Tail(tasks))

GatherInCompletionOrder(tasks, arrived) == arrived

\* results = await asyncio.gather(*tasks) followed by the extend loop: gather
\* returns the results in the order of the tasks, whatever order they ended in
GatherResults(tasks, arrived) == ConcatResults(tasks)

\* the fallback up to the creation of the tasks: the products of the main
\* page, the discovered URLs (at most 100), a task for each of the first 20
FallbackStart(rawMain, found) ==
    /\ cpc = "fallback"
    /\ cFallbackRan' = TRUE
    /\ cMain' = CatalogExtract(rawMain, MainPageMaxProducts)
    /\ cTasks' = [i \in 1 .. Min(Min(found, DiscoverUrlCap), FallbackPageLimit) |->
                     [pc |-> "waiting", result |-> <<>>]]
    /\ cArrived' = <<>>
    /\ cSem' = FallbackConcurrency
    /\ cpc' = "fallback_tasks"
    /\ UNCHANGED <<cFirst, cAll, cLastPage, cPage, cCatalog>>
    /\ CatalogFrame

\* `async with semaphore`: the task enters and issues its fetch
TaskAcquire(i) ==
    /\ cpc = "fallback_tasks"
    /\ cTasks[i].pc = "waiting"
    /\ SemaphoreFree(cSem)
    /\ cSem' = cSem - 1
    /\ cTasks' = [cTasks EXCEPT ![i].pc = "fetching"]
    /\ UNCHANGED <<cArrived, cpc, cFirst, cAll, cLastPage, cPage, cFallbackRan, cMain, cCatalog>>
    /\ CatalogFrame

\* the fetch returns, the page is extracted, the task leaves the semaphore
TaskFinish(i, kind, raw) ==
    /\ cpc = "fallback_tasks"
    /\ cTasks[i].pc = "fetching"
    /\ kind # "html" => raw = <<>>
    /\ cSem' = cSem + 1
    /\ cTasks' = [cTasks EXCEPT ![i] = [pc |-> "done",
                                       result |-> FetchProductPageResult(kind, raw)]]
    /\ cArrived' = cArrived \o FetchProductPageResult(kind, raw)
    /\ UNCHANGED <<cpc, cFirst, cAll, cLastPage, cPage, cFallbackRan, cMain, cCatalog>>
    /\ CatalogFrame

\* gather has every result: extend, deduplicate, return
FallbackGather ==
    /\ cpc = "fallback_tasks"
    /\ \A i \in 1 .. Len(cTasks) : cTasks[i].pc = "done"
    /\ cCatalog' = Service_deduplicate_products(cMain \o GatherResults(cTasks, cArrived))
    /\ cpc' = "done"
    /\ UNCHANGED <<cArrived, cFirst, cAll, cLastPage, cPage, cFallbackRan, cMain, cTasks, cSem>>
    /\ CatalogFrame

CatalogInit ==
    CatalogIdle /\ FetchIdle /\ DedupIdle /\ HeroIdle /\ DiscoverIdle /\ InsightsIdle
        /\ CompetitorIdle
        /\ TextIdle
        /\ ProfileIdle
        /\ AnalysisIdle

CatalogNext ==
    \/ CatalogStart
    \/ \E kind \in JsonKinds, page \in CatalogPages : CatalogFirstResponse(kind, page)
    \/ CatalogPageFetch
    \/ \E kind \in JsonKinds, page \in CatalogPages : CatalogPageResponse(kind, page)
    \/ \E rawMain \in RawPages, found \in 0 .. MaxFallbackUrls :
           FallbackStart(rawMain, found)
    \/ \E i \in 1 .. Len(cTasks) : TaskAcquire(i)
    \/ \E i \in 1 .. Len(cTasks), kind \in {"failure", "exception", "html"},
          raw \in RawPages : TaskFinish(i, kind, raw)
    \/ FallbackGather

SpecCatalog == CatalogInit /\ [][CatalogNext]_vars

(***************************************************************************)
(* Claims about the catalog, checked under SpecCatalog.                    *)
(***************************************************************************)
\* C6: when the first products.json fetch returns Failure, or JSON with an
\* empty or missing product list, the catalog comes from the fallback path.
C6_FallbackWhenPrimaryFailsOrEmpty ==
    (cpc = "done" /\ cFirst \in {"failure", "no_products_key", "empty"})
        => cFallbackRan

\* C7: the returned catalog never holds two records with the same identity
\* key (name, product_url), on the primary path as on the fallback path.
C7_ReturnedCatalogHasNoDuplicates ==
    cpc = "done" =>
        \A i, j \in 1 .. Len(cCatalog) :
            i # j => ServiceKey(cCatalog[i]) # ServiceKey(cCatalog[j])

\* product-page fetches of the fallback in flight
InFlightFallback ==
    Cardinality({i \in 1 .. Len(cTasks) : cTasks[i].pc = "fetching"})

\* products.json fetches of the primary path in flight
InFlightPrimary == IF cpc \in {"json_fetching", "page_fetching"} THEN 1 ELSE 0

\* C10: never more than 3 product-page fetches of the fallback and never
\* more than 5 page fetches of the primary path are in flight; exactly the
\* tasks whose fetch is in flight hold a permit of the limiter (a task that
\* has not entered or has ended, with or without products, holds none).
C10_BoundedFetchesInFlight ==
    /\ InFlightFallback <= 3
    /\ InFlightPrimary <= 5
    /\ cSem >= 0
    /\ cSem + InFlightFallback = FallbackConcurrency
    /\ InFlightPrimary > 0 => InFlightFallback = 0

\* C10 witness: three fetches are in flight, the limiter is exhausted, a
\* fourth task waits, and it is the fallback that runs.
C10_Witness ==
    /\ cpc = "fallback_tasks"
    /\ InFlightFallback = 3
    /\ cSem = 0
    /\ \E i \in 1 .. Len(cTasks) : cTasks[i].pc = "waiting"

\* the catalog the fallback is to return for the main page and the per-URL
\* results: a function of the results in URL order only
CatalogByUrlOrder == Service_deduplicate_products(cMain \o ConcatResults(cTasks))

\* a step of a fetch_product_page task
TaskStep == cpc = "fallback_tasks" /\ cpc' = "fallback_tasks"

\* C11: the catalog the fallback returns is the deduplicated list of the
\* main-page products followed by the per-URL results in URL order, whatever
\* order the fetches ended in; a step of a task changes the slot of one task
\* and the limiter, and nothing else of the program's state.
C11_FallbackResultIndependentOfCompletionOrder ==
    /\ []((cpc = "done" /\ cFallbackRan) => cCatalog = CatalogByUrlOrder)
    /\ [][TaskStep =>
            /\ UNCHANGED <<cMain, cCatalog, cAll, cFallbackRan>>
            /\ Len(cTasks') = Len(cTasks)
            /\ Cardinality({i \in 1 .. Len(cTasks) : cTasks'[i] # cTasks[i]}) = 1]_vars

\* C11 witness: the fallback has returned, and the pages arrived in an order
\* in which a catalog built in arrival order would differ from the one
\* returned.
C11_Witness ==
    /\ cpc = "done"
    /\ cFallbackRan
    /\ Service_deduplicate_products(cMain \o cArrived) # cCatalog

\* C23: catalog paging ends after a bounded number of products.json page
\* requests, whatever the server returns: once MaxCatalogPages pages have been
\* requested after the first one, the paging loop of _fetch_product_catalog is
\* over and no further page is about to be requested.
C23_CatalogPagingBounded ==
    cPage > MaxCatalogPages => cpc # "paging"

(***************************************************************************)
(* ShopifyInsightsService._discover_product_urls                           *)
(*                                                                         *)
(* A product URL is a number in 1 .. MaxDiscovered (its identity after     *)
(* normalisation); a source links to a set of them.                        *)
(***************************************************************************)
\* the three collections URLs tried in turn
CollectionsUrlCount == 3

\* the sets of product URLs one source can link to
DiscoverLinkSets ==
    {{}, 1 .. 15, 10 .. DiscoverUrlCap, 1 .. (DiscoverUrlCap + 1),
     90 .. MaxDiscovered}

\* what a source fetch ends in: Failure, an exception while the links are
\* read (the URLs added before it stay in the set), or a page that is read
SourceKinds == {"failure", "exception", "page"}

\* list(product_urls): the iteration order of a set of strings is not fixed
\* by the language; the ascending and the descending order stand for it
ListOfSet(S, order) ==
    SelectSeq([i \in 1 .. MaxDiscovered |->
                   IF order = "asc" THEN i ELSE MaxDiscovered + 1 - i],
              LAMBDA x : x \in S)

CapUrlsMissing(urls) == urls

\* `[:100]` of _discover_product_urls
CapUrls(urls) == Take(urls, DiscoverUrlCap)

\* one turn of the loop over collections_urls
DiscoverCollection(kind, links) ==
    /\ upc = "collections"
    /\ kind = "failure" => links = {}
    /\ uUrls' = uUrls \cup links
    /\ IF (kind = "page" /\ uUrls' # {}) \/ uColl = CollectionsUrlCount
          THEN upc' = "main" /\ UNCHANGED uColl
          ELSE upc' = "collections" /\ uColl' = uColl + 1
    /\ UNCHANGED <<uReturned, uHanded>>
    /\ DiscoverFrame

\* the anchors of the main page
DiscoverMainPage(links) ==
    /\ upc = "main"
    /\ uUrls' = uUrls \cup links
    /\ upc' = "sitemap"
    /\ UNCHANGED <<uColl, uReturned, uHanded>>
    /\ DiscoverFrame

\* the sitemap
DiscoverSitemap(kind, links) ==
    /\ upc = "sitemap"
    /\ kind = "failure" => links = {}
    /\ uUrls' = uUrls \cup links
    /\ upc' = "return"
    /\ UNCHANGED <<uColl, uReturned, uHanded>>
    /\ DiscoverFrame

\* return list(product_urls)[:100]
DiscoverReturn(order) ==
    /\ upc = "return"
    /\ uReturned' = CapUrls(ListOfSet(uUrls, order))
    /\ upc' = "returned"
    /\ UNCHANGED <<uColl, uUrls, uHanded>>
    /\ DiscoverFrame

\* the caller creates a task for each URL of product_urls[:20]
DiscoverHandOver ==
    /\ upc = "returned"
    /\ uHanded' = Take(uReturned, FallbackPageLimit)
    /\ upc' = "handed"
    /\ UNCHANGED <<uColl, uUrls, uReturned>>
    /\ DiscoverFrame

DiscoverInit ==
    DiscoverIdle /\ FetchIdle /\ DedupIdle /\ HeroIdle /\ CatalogIdle /\ InsightsIdle
        /\ CompetitorIdle
        /\ TextIdle
        /\ ProfileIdle
        /\ AnalysisIdle

DiscoverNext ==
    \/ \E kind \in SourceKinds, links \in DiscoverLinkSets :
           DiscoverCollection(kind, links)
    \/ \E links \in DiscoverLinkSets : DiscoverMainPage(links)
    \/ \E kind \in SourceKinds, links \in DiscoverLinkSets :
           DiscoverSitemap(kind, links)
    \/ \E order \in {"asc", "desc"} : DiscoverReturn(order)
    \/ DiscoverHandOver

SpecDiscover == DiscoverInit /\ [][DiscoverNext]_vars

\* C12: the list _discover_product_urls returns has at most 100 elements,
\* all of them harvested and none twice, and the URLs handed to the
\* concurrent page fetches are a prefix of it (so at most 100 as well),
\* however many URLs the sources yielded.
C12_DiscoveredUrlsCapped ==
    /\ Len(uReturned) <= 100
    /\ Range(uReturned) \subseteq uUrls
    /\ Cardinality(Range(uReturned)) = Len(uReturned)
    /\ Len(uHanded) <= 100
    /\ uHanded = SubSeq(uReturned, 1, Len(uHanded))
    /\ upc \in {"returned", "handed"} =>
           Len(uReturned) = Min(Cardinality(uUrls), 100)

\* C12 witness: the sources yielded more than 100 URLs together, none of
\* them alone did, and the URLs were handed to the page fetches.
C12_Witness ==
    /\ upc = "handed"
    /\ Cardinality(uUrls) > 100
    /\ Len(uReturned) = 100
    /\ uHanded # <<>>

(***************************************************************************)
(* ShopifyInsightsService.fetch_insights and the endpoints of main.py      *)
(*                                                                         *)
(* Titles and error messages are sequences of characters, so that lower()  *)
(* and the substring tests of the code are computed.                       *)
(***************************************************************************)
\* `needle in s`
Contains(s, needle) ==
    \E i \in 0 .. (Len(s) - Len(needle)) :
        SubSeq(s, i + 1, i + Len(needle)) = needle

\* the messages of the exceptions
InvalidUrlMessage ==
    <<"I", "n", "v", "a", "l", "i", "d", " ", "U", "R", "L", " ", "f", "o",
      "r", "m", "a", "t">>
FetchFailedMessage ==
    <<"F", "a", "i", "l", "e", "d", " ", "t", "o", " ", "f", "e", "t", "c",
      "h", " ", "w", "e", "b", "s", "i", "t", "e", " ", "c", "o", "n", "t",
      "e", "n", "t">>
\* ValueError of urllib.parse.urljoin for an href such as //[x
BadAnchorMessage ==
    <<"I", "n", "v", "a", "l", "i", "d", " ", "I", "P", "v", "6", " ", "U",
      "R", "L">>
UnexpectedMessage ==
    <<"u", "n", "e", "x", "p", "e", "c", "t", "e", "d", " ", "e", "r", "r",
      "o", "r">>

\* the substrings the policy slots are chosen by
PrivacyText ==
    <<"p", "r", "i", "v", "a", "c", "y">>
ReturnText ==
    <<"r", "e", "t", "u", "r", "n">>
RefundText ==
    <<"r", "e", "f", "u", "n", "d">>
TermsText ==
    <<"t", "e", "r", "m", "s">>
ConditionsText ==
    <<"c", "o", "n", "d", "i", "t", "i", "o", "n", "s">>

\* titles of policy records
TitlePrivacy ==
    <<"P", "r", "i", "v", "a", "c", "y", " ", "P", "o", "l", "i", "c", "y">>
TitleReturnRefund ==
    <<"R", "e", "t", "u", "r", "n", " ", "&", " ", "R", "e", "f", "u", "n",
      "d", " ", "P", "o", "l", "i", "c", "y">>
TitleRefund ==
    <<"R", "e", "f", "u", "n", "d", " ", "P", "o", "l", "i", "c", "y">>
TitleTerms ==
    <<"T", "e", "r", "m", "s", " ", "&", " ", "C", "o", "n", "d", "i", "t",
      "i", "o", "n", "s">>
TitleShipping ==
    <<"S", "h", "i", "p", "p", "i", "n", "g", " ", "P", "o", "l", "i", "c",
      "y">>

\* PolicyModel records: the title and the URL of the policy page
PolicyRecords ==
    {[title |-> TitlePrivacy, url |-> "/policies/privacy-policy"],
     [title |-> TitleReturnRefund, url |-> "/policies/refund-policy"],
     [title |-> TitleRefund, url |-> "/pages/refunds"],
     [title |-> TitleTerms, url |-> "/policies/terms-of-service"],
     [title |-> TitleShipping, url |-> "/policies/shipping-policy"]}

AssignPolicyEveryMatch(slots, policy) ==
    LET t == Lower(policy.title)
        s1 == IF Contains(t, PrivacyText)
                 THEN [slots EXCEPT !.privacy_policy = policy] ELSE slots
        s2 == IF Contains(t, ReturnText)
                 THEN [s1 EXCEPT !.return_policy = policy] ELSE s1
        s3 == IF Contains(t, RefundText)
                 THEN [s2 EXCEPT !.refund_policy = policy] ELSE s2
    IN  IF Contains(t, TermsText) \/ Contains(t, ConditionsText)
           THEN [s3 EXCEPT !.terms_of_service = policy] ELSE s3

\* the if/elif chain of "Organize policies by type", for one record
AssignPolicy(slots, policy) ==
    LET t == Lower(policy.title)
    IN  IF Contains(t, PrivacyText)
           THEN [slots EXCEPT !.privacy_policy = policy]
        ELSE IF Contains(t, ReturnText)
           THEN [slots EXCEPT !.return_policy = policy]
        ELSE IF Contains(t, RefundText)
           THEN [slots EXCEPT !.refund_policy = policy]
        ELSE IF Contains(t, TermsText) \/ Contains(t, ConditionsText)
           THEN [slots EXCEPT !.terms_of_service = policy]
        ELSE slots

RECURSIVE OrganizePolicies(_, _)
\* `for policy in all_policies:`
OrganizePolicies(slots, policies) ==
    IF policies = <<>> THEN slots
    ELSE OrganizePolicies(AssignPolicy(slots, Head(policies)), Tail(policies))

\* "Determine appropriate status code based on error" of the /insights and
\* /competitor-analysis handlers
StatusFor(message) ==
    IF Contains(Lower(message), <<"n", "o", "t", " ", "f", "o", "u", "n",
        "d">>) \/ Contains(message, <<"4", "0", "4">>)
       THEN 404
    ELSE IF Contains(Lower(message), <<"i", "n", "v", "a", "l", "i", "d", " ",
        "u", "r", "l">>) THEN 400
    ELSE IF Contains(Lower(message), <<"f", "a", "i", "l", "e", "d", " ", "t",
        "o", " ", "f", "e", "t", "c", "h">>) THEN 404
    ELSE 500

\* the status an endpoint answers with.  /comprehensive-analysis awaits the
\* /insights handler; the HTTPException that handler raises is caught by
\* `except Exception` and replaced by one with status 500
EndpointStatus(endpoint, raised, message) ==
    IF ~raised THEN 200
    ELSE IF endpoint = "comprehensive" THEN 500
    ELSE StatusFor(message)

Endpoints == {"insights", "competitor", "comprehensive"}

\* what _fetch_product_catalog can meet: every one of them is caught
CatalogOutcomes ==
    {"json_ok", "json_failure", "json_parse_error", "collections_failure",
     "sitemap_failure", "product_page_failure"}

\* an endpoint receives a request and calls fetch_insights
EndpointCall(endpoint, include) ==
    /\ ipc = "idle"
    /\ iEndpoint' = endpoint
    /\ iInclude' = IF endpoint = "comprehensive" THEN TRUE ELSE include
    /\ ipc' = "validate"
    /\ UNCHANGED <<iBadAnchor, iShopify, iPolicies, iSlots, iAbsorbed, iCause,
                   iError, iStatus>>
    /\ InsightsFrame

\* `if not self._validate_url(website_url): raise`
InsightsValidate(valid) ==
    /\ ipc = "validate"
    /\ IF valid
          THEN ipc' = "main_fetch" /\ UNCHANGED <<iCause, iError>>
          ELSE /\ ipc' = "fi_raised"
               /\ iCause' = "invalid_url"
               /\ iError' = InvalidUrlMessage
    /\ UNCHANGED <<iEndpoint, iInclude, iBadAnchor, iShopify, iPolicies, iSlots,
                   iAbsorbed, iStatus>>
    /\ InsightsFrame

\* the fetch of the main page, and what the page is like when it arrives
InsightsMainFetch(fetched, badAnchor, shopify, policies) ==
    /\ ipc = "main_fetch"
    /\ IF fetched
          THEN /\ ipc' = "extract"
               /\ iBadAnchor' = badAnchor
               /\ iShopify' = shopify
               /\ iPolicies' = policies
               /\ UNCHANGED <<iCause, iError>>
          ELSE /\ badAnchor = FALSE /\ shopify = FALSE /\ policies = <<>>
               /\ ipc' = "fi_raised"
               /\ iCause' = "main_fetch"
               /\ iError' = FetchFailedMessage
               /\ UNCHANGED <<iBadAnchor, iShopify, iPolicies>>
    /\ UNCHANGED <<iEndpoint, iInclude, iSlots, iAbsorbed, iStatus>>
    /\ InsightsFrame

\* lines 62-114: the platform check (a negative result is only logged), the
\* brand, hero, social and contact extractors, and the policy slots
InsightsExtract ==
    /\ ipc = "extract"
    /\ iAbsorbed' = IF iShopify THEN iAbsorbed ELSE iAbsorbed \cup {"not_shopify"}
    /\ iSlots' = OrganizePolicies(iSlots, iPolicies)
    /\ ipc' = "links"
    /\ UNCHANGED <<iEndpoint, iInclude, iBadAnchor, iShopify, iPolicies, iCause,
                   iError, iStatus>>
    /\ InsightsFrame

\* lines 116-124: FAQExtractor and ImportantLinksExtractor.  The latter calls
\* URLUtils.normalize_url on every anchor of the page outside any try
InsightsLinks ==
    /\ ipc = "links"
    /\ IF iBadAnchor
          THEN /\ ipc' = "fi_raised"
               /\ iCause' = "important_links"
               /\ iError' = BadAnchorMessage
          ELSE ipc' = "catalog" /\ UNCHANGED <<iCause, iError>>
    /\ UNCHANGED <<iEndpoint, iInclude, iBadAnchor, iShopify, iPolicies, iSlots,
                   iAbsorbed, iStatus>>
    /\ InsightsFrame

\* lines 126-130: _fetch_product_catalog
InsightsCatalog(outcome) ==
    /\ ipc = "catalog"
    /\ iAbsorbed' = IF outcome = "json_ok" THEN iAbsorbed
                    ELSE iAbsorbed \cup {outcome}
    /\ ipc' = "save"
    /\ UNCHANGED <<iEndpoint, iInclude, iBadAnchor, iShopify, iPolicies, iSlots,
                   iCause, iError, iStatus>>
    /\ InsightsFrame

\* lines 135-146: the save inside try/except, and the return
InsightsSave(saved) ==
    /\ ipc = "save"
    /\ iAbsorbed' = IF saved THEN iAbsorbed ELSE iAbsorbed \cup {"save"}
    /\ ipc' = "returned"
    /\ UNCHANGED <<iEndpoint, iInclude, iBadAnchor, iShopify, iPolicies, iSlots,
                   iCause, iError, iStatus>>
    /\ InsightsFrame

\* the competitor analysis of the endpoint: caught by /insights, not caught
\* by /competitor-analysis
EndpointCompetitors(failed) ==
    /\ ipc = "returned"
    /\ ~iInclude /\ iEndpoint # "competitor" => ~failed
    /\ IF failed /\ iEndpoint = "competitor"
          THEN /\ ipc' = "ep_raised"
               /\ iCause' = "competitor_analysis"
               /\ iError' = UnexpectedMessage
               /\ UNCHANGED iAbsorbed
          ELSE /\ ipc' = "respond"
               /\ iAbsorbed' = IF failed
                                  THEN iAbsorbed \cup {"competitor_analysis"}
                                  ELSE iAbsorbed
               /\ UNCHANGED <<iCause, iError>>
    /\ UNCHANGED <<iEndpoint, iInclude, iBadAnchor, iShopify, iPolicies, iSlots,
                   iStatus>>
    /\ InsightsFrame

\* the endpoint answers
EndpointAnswer ==
    /\ ipc \in {"fi_raised", "ep_raised", "respond"}
    /\ iStatus' = EndpointStatus(iEndpoint, ipc # "respond", iError)
    /\ ipc' = "answered"
    /\ UNCHANGED <<iEndpoint, iInclude, iBadAnchor, iShopify, iPolicies, iSlots,
                   iAbsorbed, iCause, iError>>
    /\ InsightsFrame

InsightsInit ==
    InsightsIdle /\ FetchIdle /\ DedupIdle /\ HeroIdle /\ CatalogIdle /\ DiscoverIdle
        /\ CompetitorIdle
        /\ TextIdle
        /\ ProfileIdle
        /\ AnalysisIdle

InsightsNext ==
    \/ \E endpoint \in Endpoints, include \in BOOLEAN : EndpointCall(endpoint, include)
    \/ \E valid \in BOOLEAN : InsightsValidate(valid)
    \/ \E fetched, badAnchor, shopify \in BOOLEAN,
          policies \in ListsUpTo(PolicyRecords, MaxPolicies) :
           InsightsMainFetch(fetched, badAnchor, shopify, policies)
    \/ InsightsExtract
    \/ InsightsLinks
    \/ \E outcome \in CatalogOutcomes : InsightsCatalog(outcome)
    \/ \E saved \in BOOLEAN : InsightsSave(saved)
    \/ \E failed \in BOOLEAN : EndpointCompetitors(failed)
    \/ EndpointAnswer

SpecInsights == InsightsInit /\ [][InsightsNext]_vars

(***************************************************************************)
(* Claims about fetch_insights and the endpoints, checked under            *)
(* SpecInsights.                                                           *)
(***************************************************************************)
\* C13: fetch_insights raises only when the URL is invalid or the fetch of
\* the main page returned Failure; no later step makes the run fail.
C13_OnlyValidationAndMainFetchAreFatal ==
    ipc = "fi_raised" => iCause \in {"invalid_url", "main_fetch"}

\* the slots in keyword order: privacy, return, refund, terms/conditions
SlotOrder ==
    <<[slot |-> "privacy_policy", words |-> {PrivacyText}],
      [slot |-> "return_policy", words |-> {ReturnText}],
      [slot |-> "refund_policy", words |-> {RefundText}],
      [slot |-> "terms_of_service", words |-> {TermsText, ConditionsText}]>>

\* the entries of SlotOrder with a keyword in the title
MatchingEntries(title) ==
    {i \in 1 .. Len(SlotOrder) :
        \E w \in SlotOrder[i].words : Contains(Lower(title), w)}

\* the slots a record may occupy: that of the first matching entry
AllowedSlots(title) ==
    {SlotOrder[i].slot : i \in {j \in MatchingEntries(title) :
                                   \A k \in MatchingEntries(title) : j <= k}}

\* the slots that hold the record
SlotsHolding(policy) == {f \in DOMAIN iSlots : iSlots[f] = policy}

PoliciesOrganized == ipc \notin {"idle", "validate", "main_fetch", "extract"}

\* C14: once the policies are organized, a policy record is in no slot but
\* the one of the first keyword (privacy, return, refund, terms/conditions)
\* in its title, so in at most one; a slot holds nothing or a record of the
\* list; "Return & Refund Policy" is never in refund_policy.
C14_PolicyInAtMostOneSlot ==
    PoliciesOrganized =>
        /\ \A i \in 1 .. Len(iPolicies) :
               /\ SlotsHolding(iPolicies[i]) \subseteq AllowedSlots(iPolicies[i].title)
               /\ Cardinality(SlotsHolding(iPolicies[i])) <= 1
        /\ \A f \in DOMAIN iSlots :
               iSlots[f] = NoPolicy \/ iSlots[f] \in Range(iPolicies)
        /\ iSlots.refund_policy.title # TitleReturnRefund

\* C14 witness: "Return & Refund Policy" is in return_policy, and the
\* refund slot holds another record.
C14_Witness ==
    /\ PoliciesOrganized
    /\ iSlots.return_policy.title = TitleReturnRefund
    /\ iSlots.refund_policy.title = TitleRefund

\* C17: every endpoint answers an invalid URL with 400, a main page that
\* could not be fetched with 404, and any other failure with 500.
C17_EndpointStatusMapping ==
    ipc = "answered" =>
        /\ iCause = "invalid_url" => iStatus = 400
        /\ iCause = "main_fetch" => iStatus = 404
        /\ iCause \notin {"none", "invalid_url", "main_fetch"} => iStatus = 500

(***************************************************************************)
(* CompetitorAnalyzer.find_competitors (modules/competitor_analyzer.py)    *)
(*                                                                         *)
(* A URL is [scheme, netloc]; netloc and names are sequences of characters.*)
(***************************************************************************)
Url(scheme, netloc) == [scheme |-> scheme, netloc |-> netloc]

\* max_competitors of find_competitors
MaxCompetitorsDefault == 10

\* str.upper() on one character
UpperChar(c) ==
    CASE c = "a" -> "A"
      [] c = "b" -> "B"
      [] c = "c" -> "C"
      [] c = "d" -> "D"
      [] c = "e" -> "E"
      [] c = "f" -> "F"
      [] c = "g" -> "G"
      [] c = "h" -> "H"
      [] c = "i" -> "I"
      [] c = "j" -> "J"
      [] c = "k" -> "K"
      [] c = "l" -> "L"
      [] c = "m" -> "M"
      [] c = "n" -> "N"
      [] c = "o" -> "O"
      [] c = "p" -> "P"
      [] c = "q" -> "Q"
      [] c = "r" -> "R"
      [] c = "s" -> "S"
      [] c = "t" -> "T"
      [] c = "u" -> "U"
      [] c = "v" -> "V"
      [] c = "w" -> "W"
      [] c = "x" -> "X"
      [] c = "y" -> "Y"
      [] c = "z" -> "Z"
      [] OTHER -> c

\* str.capitalize()
Capitalize(w) ==
    [i \in 1 .. Len(w) |-> IF i = 1 THEN UpperChar(w[1]) ELSE LowerChar(w[i])]

RECURSIVE RemoveAll(_, _)
\* s.replace(pattern, '')
RemoveAll(str, pattern) ==
    IF Len(str) < Len(pattern) THEN str
    ELSE IF SubSeq(str, 1, Len(pattern)) = pattern
         THEN RemoveAll(SubSeq(str, Len(pattern) + 1, Len(str)), pattern)
         ELSE <<Head(str)>> \o RemoveAll(Tail(str), pattern)

RECURSIVE FirstLabel(_)
\* domain.split('.')[0]
FirstLabel(str) ==
    IF str = <<>> \/ Head(str) = "." THEN <<>>
    ELSE <<Head(str)>> \o FirstLabel(Tail(str))

WwwDot == <<"w", "w", "w", ".">>

\* _extract_brand_name_from_url, for hosts whose first label consists of
\* letters and digits (the re.sub and the split leave such a label whole)
Extract_brand_name_from_url(url) ==
    Capitalize(FirstLabel(RemoveAll(url.netloc, WwwDot)))

\* host of a store of the static list that the searches return as well
HostBombas ==
    <<"b", "o", "m", "b", "a", "s", ".", "c", "o", "m">>

\* fallback_stores of _get_fallback_competitors
FallbackStores(category) ==
    CASE category = "gaming" ->
           <<[name |-> <<"R", "a", "z", "e", "r">>, url |-> Url("https",
               <<"w", "w", "w", ".", "r", "a", "z", "e", "r", ".", "c", "o",
               "m">>)],
             [name |-> <<"S", "t", "e", "e", "l", "S", "e", "r", "i", "e",
                 "s">>, url |-> Url("https", <<"s", "t", "e", "e", "l", "s", "e",
                 "r", "i", "e", "s", ".", "c", "o", "m">>)],
             [name |-> <<"H", "y", "p", "e", "r", "X">>, url |-> Url("https",
                 <<"w", "w", "w", ".", "h", "y", "p", "e", "r", "x", "g", "a",
                 "m", "i", "n", "g", ".", "c", "o", "m">>)],
             [name |-> <<"C", "o", "r", "s", "a", "i", "r">>, url |->
                 Url("https", <<"w", "w", "w", ".", "c", "o", "r", "s", "a", "i",
                 "r", ".", "c", "o", "m">>)]>>
      [] category = "fashion" ->
           <<[name |-> <<"A", "l", "l", "b", "i", "r", "d", "s">>, url |->
               Url("https", <<"w", "w", "w", ".", "a", "l", "l", "b", "i", "r",
               "d", "s", ".", "c", "o", "m">>)],
             [name |-> <<"E", "v", "e", "r", "l", "a", "n", "e">>, url |->
                 Url("https", <<"w", "w", "w", ".", "e", "v", "e", "r", "l", "a",
                 "n", "e", ".", "c", "o", "m">>)],
             [name |-> <<"B", "o", "m", "b", "a", "s">>, url |-> Url("https",
                 HostBombas)],
             [name |-> <<"O", "u", "t", "d", "o", "o", "r", " ", "V", "o",
                 "i", "c", "e", "s">>, url |-> Url("https", <<"o", "u", "t", "d",
                 "o", "o", "r", "v", "o", "i", "c", "e", "s", ".", "c", "o",
                 "m">>)]>>
      [] category = "beauty" ->
           <<[name |-> <<"G", "l", "o", "s", "s", "i", "e", "r">>, url |->
               Url("https", <<"w", "w", "w", ".", "g", "l", "o", "s", "s", "i",
               "e", "r", ".", "c", "o", "m">>)],
             [name |-> <<"C", "o", "l", "o", "u", "r", "P", "o", "p">>, url
                 |-> Url("https", <<"c", "o", "l", "o", "u", "r", "p", "o", "p",
                 ".", "c", "o", "m">>)],
             [name |-> <<"F", "e", "n", "t", "y", " ", "B", "e", "a", "u",
                 "t", "y">>, url |-> Url("https", <<"f", "e", "n", "t", "y", "b",
                 "e", "a", "u", "t", "y", ".", "c", "o", "m">>)],
             [name |-> <<"K", "y", "l", "i", "e", " ", "C", "o", "s", "m",
                 "e", "t", "i", "c", "s">>, url |-> Url("https", <<"k", "y", "l",
                 "i", "e", "c", "o", "s", "m", "e", "t", "i", "c", "s", ".", "c",
                 "o", "m">>)]>>
      [] category = "fitness" ->
           <<[name |-> <<"G", "y", "m", "s", "h", "a", "r", "k">>, url |->
               Url("https", <<"w", "w", "w", ".", "g", "y", "m", "s", "h", "a",
               "r", "k", ".", "c", "o", "m">>)],
             [name |-> <<"L", "u", "l", "u", "l", "e", "m", "o", "n">>, url
                 |-> Url("https", <<"s", "h", "o", "p", ".", "l", "u", "l", "u",
                 "l", "e", "m", "o", "n", ".", "c", "o", "m">>)],
             [name |-> <<"A", "l", "o", " ", "Y", "o", "g", "a">>, url |->
                 Url("https", <<"w", "w", "w", ".", "a", "l", "o", "y", "o", "g",
                 "a", ".", "c", "o", "m">>)],
             [name |-> <<"A", "t", "h", "l", "e", "t", "i", "c", " ", "G",
                 "r", "e", "e", "n", "s">>, url |-> Url("https", <<"a", "t", "h",
                 "l", "e", "t", "i", "c", "g", "r", "e", "e", "n", "s", ".", "c",
                 "o", "m">>)]>>
      [] OTHER ->
           <<[name |-> <<"A", "l", "l", "b", "i", "r", "d", "s">>, url |->
               Url("https", <<"w", "w", "w", ".", "a", "l", "l", "b", "i", "r",
               "d", "s", ".", "c", "o", "m">>)],
             [name |-> <<"C", "o", "l", "o", "u", "r", "P", "o", "p">>, url
                 |-> Url("https", <<"c", "o", "l", "o", "u", "r", "p", "o", "p",
                 ".", "c", "o", "m">>)],
             [name |-> <<"G", "y", "m", "s", "h", "a", "r", "k">>, url |->
                 Url("https", <<"w", "w", "w", ".", "g", "y", "m", "s", "h", "a",
                 "r", "k", ".", "c", "o", "m">>)],
             [name |-> <<"B", "o", "m", "b", "a", "s">>, url |-> Url("https",
                 HostBombas)]>>

\* excluded_domains of _is_valid_competitor_url
ExcludedDomains ==
    {<<"g", "o", "o", "g", "l", "e", ".", "c", "o", "m">>,
     <<"f", "a", "c", "e", "b", "o", "o", "k", ".", "c", "o", "m">>,
     <<"i", "n", "s", "t", "a", "g", "r", "a", "m", ".", "c", "o", "m">>,
     <<"t", "w", "i", "t", "t", "e", "r", ".", "c", "o", "m">>,
     <<"y", "o", "u", "t", "u", "b", "e", ".", "c", "o", "m">>,
     <<"w", "i", "k", "i", "p", "e", "d", "i", "a", ".", "o", "r", "g">>,
     <<"a", "m", "a", "z", "o", "n", ".", "c", "o", "m">>,
     <<"e", "b", "a", "y", ".", "c", "o", "m">>,
     <<"l", "i", "n", "k", "e", "d", "i", "n", ".", "c", "o", "m">>,
     <<"r", "e", "d", "d", "i", "t", ".", "c", "o", "m">>,
     <<"p", "i", "n", "t", "e", "r", "e", "s", "t", ".", "c", "o", "m">>}

\* _is_valid_competitor_url
Is_valid_competitor_url(url, original_url) ==
    IF original_url.netloc = url.netloc THEN FALSE
    ELSE IF \E excluded \in ExcludedDomains : Contains(url.netloc, excluded)
         THEN FALSE
    ELSE url.scheme \in {"http", "https"}

\* url.lower()
LowerUrl(url) == Url(url.scheme, Lower(url.netloc))

RECURSIVE DedupValidateLoop(_, _, _, _, _)
\* the loop of _deduplicate_and_validate_competitors
DedupValidateLoop(competitors, original_url, seen_urls, seen_names, unique) ==
    IF competitors = <<>> THEN unique
    ELSE LET c == Head(competitors)
             url == LowerUrl(c.url)
             name == Lower(c.name)
         IN  IF url \in seen_urls \/ name \in seen_names
                THEN DedupValidateLoop(Tail(competitors), original_url,
                                       seen_urls, seen_names, unique)
             ELSE IF ~Is_valid_competitor_url(c.url, original_url)
                THEN DedupValidateLoop(Tail(competitors), original_url,
                                       seen_urls, seen_names, unique)
             ELSE DedupValidateLoop(Tail(competitors), original_url,
                                    seen_urls \cup {url}, seen_names \cup {name},
                                    Append(unique, c))

Deduplicate_and_validate_competitors(competitors, original_url) ==
    DedupValidateLoop(competitors, original_url, {}, {}, <<>>)

\* _get_fallback_competitors
Get_fallback_competitors(category, original_url) ==
    LET stores == FallbackStores(category)
        valid == SelectSeq(stores,
                    LAMBDA st : Is_valid_competitor_url(st.url, original_url))
    IN  [i \in 1 .. Len(valid) |->
            [name |-> valid[i].name, url |-> valid[i].url, source |-> "fallback"]]

FallbackAlways(unique_competitors) == TRUE

\* `if len(unique_competitors) == 0:`
FallbackNeeded(unique_competitors) == Len(unique_competitors) = 0

\* the hosts a search engine can return, in the order of the result page

SearchPool ==
    <<Url("https", HostBombas), Url("https", <<"r", "i", "v", "a", "l", ".",
        "c", "o", "m">>), Url("https", <<"w", "w", "w", ".", "a", "m", "a", "z",
        "o", "n", ".", "c", "o", "m">>),
      Url("https", <<"W", "W", "W", ".", "r", "i", "v", "a", "l", ".", "c", "o",
        "m">>)>>

\* the storefronts find_competitors is called for
OriginalUrls ==
    {Url("https", HostBombas), Url("https", <<"B", "o", "m", "b", "a", "s",
        ".", "c", "o", "m">>),
     Url("https", <<"m", "y", "s", "h", "o", "p", ".", "c", "o", "m">>)}

\* the categories _categorize_brand returns that have a list of their own,
\* and "ecommerce" for all the others
Categories == {"gaming", "fashion", "beauty", "fitness", "ecommerce"}

\* the search methods of _perform_web_search
SearchMethods == {"_search_duckduckgo", "_search_bing", "_search_startpage"}

\* f'search_{search_method.__name__}'
SourceTag(method) ==
    CASE method = "_search_duckduckgo" -> "search__search_duckduckgo"
      [] method = "_search_bing" -> "search__search_bing"
      [] method = "_search_startpage" -> "search__search_startpage"

\* _perform_web_search for the results of the first method that finds a
\* competitor: the URLs that are valid and that _is_shopify_store accepts
Perform_web_search(method, results, shopify, original_url) ==
    LET kept == SelectSeq(results,
                   LAMBDA url : /\ Is_valid_competitor_url(url, original_url)
                                /\ url \in shopify)
    IN  [i \in 1 .. Len(kept) |->
            [name |-> Extract_brand_name_from_url(kept[i]), url |-> kept[i],
             source |-> SourceTag(method)]]

\* find_competitors is called; _extract_brand_category returns
FindCompetitorsStart(original_url, category) ==
    /\ kpc = "idle"
    /\ kOriginal' = original_url
    /\ kCategory' = category
    /\ kpc' = "searching"
    /\ UNCHANGED <<kQueries, kCandidates, kUnique, kUsedFallback, kResult, kBackend,
                   kLog>>
    /\ CompetitorFrame

\* search_methods of _perform_web_search, in the order of the list
SearchMethodOrder == <<"_search_duckduckgo", "_search_bing", "_search_startpage">>

StopOnAnyLink(results, competitors) == results # <<>>

\* `if competitors: break`: the loop over the backends ends once a backend has
\* added a competitor
BreakAfterBackend(results, competitors) == competitors # <<>>

\* _perform_web_search is called for one query of one of the three strategies
SearchQueryStart ==
    /\ kpc = "searching"
    /\ kQueries < MaxSearchQueries
    /\ kQueries' = kQueries + 1
    /\ kBackend' = 1
    /\ kLog' = <<>>
    /\ kpc' = "query"
    /\ UNCHANGED <<kOriginal, kCategory, kCandidates, kUnique, kUsedFallback, kResult>>
    /\ CompetitorFrame

\* one pass of the loop over search_methods: the backend returns the links
\* `shown` (none when its request failed), those that are valid and Shopify
\* stores are appended, and the loop ends or goes on to the next backend
BackendCall(shown, shopify) ==
    /\ kpc = "query"
    /\ LET method      == SearchMethodOrder[kBackend]
           results     == SelectSeq(SearchPool, LAMBDA url : url \in shown)
           competitors == Perform_web_search(method, results, shopify, kOriginal)
       IN  /\ kLog' = Append(kLog, [method |-> method,
                                    links  |-> results # <<>>,
                                    found  |-> competitors # <<>>])
           /\ kCandidates' = kCandidates \o competitors
           /\ IF BreakAfterBackend(results, competitors)
                 \/ kBackend = Len(SearchMethodOrder)
                 THEN kpc' = "searching" /\ kBackend' = 0
                 ELSE kpc' = "query" /\ kBackend' = kBackend + 1
    /\ UNCHANGED <<kOriginal, kCategory, kQueries, kUnique, kUsedFallback, kResult>>
    /\ CompetitorFrame

\* deduplication and validation, the fallback, the cut to max_competitors
FindCompetitorsFinish ==
    /\ kpc = "searching"
    /\ LET unique == Deduplicate_and_validate_competitors(kCandidates, kOriginal)
       IN  /\ kUnique' = unique
           /\ kUsedFallback' = FallbackNeeded(unique)
           /\ kResult' = Take(IF FallbackNeeded(unique)
                                 THEN unique \o Get_fallback_competitors(kCategory,
                                                                       kOriginal)
                                 ELSE unique,
                              MaxCompetitorsDefault)
    /\ kpc' = "done"
    /\ UNCHANGED <<kOriginal, kCategory, kQueries, kCandidates, kBackend, kLog>>
    /\ CompetitorFrame

CompetitorInit ==
    CompetitorIdle /\ FetchIdle /\ DedupIdle /\ HeroIdle /\ CatalogIdle
        /\ DiscoverIdle /\ InsightsIdle /\ TextIdle /\ ProfileIdle /\ AnalysisIdle

CompetitorNext ==
    \/ \E original_url \in OriginalUrls, category \in Categories :
           FindCompetitorsStart(original_url, category)
    \/ SearchQueryStart
    \/ \E shown \in SUBSET Range(SearchPool) :
           \E shopify \in SUBSET shown : BackendCall(shown, shopify)
    \/ FindCompetitorsFinish

SpecCompetitors == CompetitorInit /\ [][CompetitorNext]_vars

(***************************************************************************)
(* Claims about find_competitors, checked under SpecCompetitors.           *)
(***************************************************************************)
\* two URLs have the same domain: host names are compared without regard to
\* case, as _deduplicate_competitors of the same class does
SameDomain(url, other) == Lower(url.netloc) = Lower(other.netloc)

\* C15: no candidate whose URL has the domain of the original storefront is
\* in the result of find_competitors, whichever source produced it.
C15_OriginalDomainNeverInResult ==
    kpc = "done" =>
        \A i \in 1 .. Len(kResult) : ~SameDomain(kResult[i].url, kOriginal)

\* C16: the static list is substituted exactly when no search candidate
\* survived validation and deduplication; then every record of the result
\* is a store of the list of the category that passes the validity check and
\* is tagged 'fallback'; otherwise the result holds the survivors and no
\* record is tagged 'fallback'.
C16_FallbackOnlyWhenNothingSurvives ==
    kpc = "done" =>
        /\ kUsedFallback <=> kUnique = <<>>
        /\ kUsedFallback =>
               \A i \in 1 .. Len(kResult) :
                   /\ kResult[i].source = "fallback"
                   /\ Is_valid_competitor_url(kResult[i].url, kOriginal)
                   /\ \E j \in 1 .. Len(FallbackStores(kCategory)) :
                          /\ FallbackStores(kCategory)[j].url = kResult[i].url
                          /\ FallbackStores(kCategory)[j].name = kResult[i].name
        /\ ~kUsedFallback =>
               /\ kResult = Take(kUnique, MaxCompetitorsDefault)
               /\ \A i \in 1 .. Len(kResult) : kResult[i].source # "fallback"
        /\ \A i, j \in 1 .. Len(kResult) :
               (kResult[i].source = "fallback") = (kResult[j].source = "fallback")

\* C27: for each query the backends are called in the order DuckDuckGo,
\* Bing, Startpage, and once a backend has returned at least one result link
\* no later backend is called for that query.
C27_StopsAtFirstBackendWithLinks ==
    \A i \in 1 .. Len(kLog) :
        /\ kLog[i].method = SearchMethodOrder[i]
        /\ i < Len(kLog) => ~kLog[i].links

\* C27, as the code has it: the backends are called in the fixed order, a
\* later backend is called exactly when no earlier one has produced an
\* accepted candidate (a valid URL of a Shopify store), and the query ends
\* with the first backend that produces one or with the last backend.
C27_StopsAtFirstBackendWithCandidate ==
    /\ \A i \in 1 .. Len(kLog) :
          /\ kLog[i].method = SearchMethodOrder[i]
          /\ i < Len(kLog) => ~kLog[i].found
    /\ kLog # <<>> =>
          (kpc = "query" <=>
              (~kLog[Len(kLog)].found /\ Len(kLog) < Len(SearchMethodOrder)))

\* C27 witness: the first backend returned links none of which was accepted,
\* the second was called and produced a candidate, and the query ended
\* without the third.
C27_Witness ==
    /\ Len(kLog) = 2
    /\ kLog[1].links /\ ~kLog[1].found
    /\ kLog[2].found
    /\ kpc = "searching"

\* the domain of a URL, lower-cased and without a leading 'www.'

NormalizedDomain(url) ==
    LET host == Lower(url.netloc)
    IN  IF Len(host) >= Len(WwwDot) /\ SubSeq(host, 1, Len(WwwDot)) = WwwDot
           THEN SubSeq(host, Len(WwwDot) + 1, Len(host))
           ELSE host

\* C26: the result of find_competitors holds no two candidates whose URLs
\* have the same normalized domain, and no two candidates with the same
\* display name up to letter case.
C26_OneCandidatePerDomainAndName ==
    kpc = "done" =>
        \A i, j \in 1 .. Len(kResult) :
            i # j =>
                /\ NormalizedDomain(kResult[i].url) # NormalizedDomain(kResult[j].url)
                /\ Lower(kResult[i].name) # Lower(kResult[j].name)

\* C16 witness: the searches returned URLs but none survived, the static
\* list was substituted, and one of its stores was rejected by the validity
\* check.
C16_Witness ==
    /\ kpc = "done"
    /\ kQueries > 0
    /\ kUsedFallback
    /\ kResult # <<>>
    /\ Len(kResult) < Len(FallbackStores(kCategory))

\* C16 witness of the other case: search candidates survived and the static
\* list was not used.
C16_WitnessSearch ==
    /\ kpc = "done"
    /\ ~kUsedFallback
    /\ kResult # <<>>

(***************************************************************************)
(* TextCleaner.extract_price, ShopifyDetector.is_shopify_store and         *)
(* SocialMediaExtractor.extract                                            *)
(*                                                                         *)
(* Three functions of their arguments alone.  Every text is a sequence of  *)
(* characters; an absent value is <<>> and a present value v is <<v>>.     *)
(***************************************************************************)
\* str.strip(), for the whitespace the inputs below contain
RECURSIVE Strip(_)
Strip(s) ==
    IF s = <<>> THEN s
    ELSE IF Head(s) = " " THEN Strip(Tail(s))
    ELSE IF s[Len(s)] = " " THEN Strip(SubSeq(s, 1, Len(s) - 1))
    ELSE s

\* the platforms of SocialHandles, in the order of the if/elif chain
SocialPlatforms ==
    <<"instagram", "facebook", "twitter", "tiktok", "youtube", "linkedin",
      "pinterest">>

\* the substrings the chain tests for the platform
PlatformDomains(platform) ==
    CASE platform = "instagram" -> {
        <<"i", "n", "s", "t", "a", "g", "r", "a", "m", ".", "c", "o", "m">>}
      [] platform = "facebook" -> {
        <<"f", "a", "c", "e", "b", "o", "o", "k", ".", "c", "o", "m">>}
      [] platform = "twitter" -> {
        <<"t", "w", "i", "t", "t", "e", "r", ".", "c", "o", "m">>,
        <<"x", ".", "c", "o", "m">>}
      [] platform = "tiktok" -> {
        <<"t", "i", "k", "t", "o", "k", ".", "c", "o", "m">>}
      [] platform = "youtube" -> {
        <<"y", "o", "u", "t", "u", "b", "e", ".", "c", "o", "m">>}
      [] platform = "linkedin" -> {
        <<"l", "i", "n", "k", "e", "d", "i", "n", ".", "c", "o", "m">>}
      [] platform = "pinterest" -> {
        <<"p", "i", "n", "t", "e", "r", "e", "s", "t", ".", "c", "o", "m">>}

\* the branch of the if/elif chain the lower-cased href takes: the first
\* platform one of whose substrings it contains, "none" if it takes no branch
SocialBranch(href) ==
    LET hits == {i \in 1 .. Len(SocialPlatforms) :
                    \E d \in PlatformDomains(SocialPlatforms[i]) : Contains(href, d)}
    IN  IF hits = {} THEN "none"
        ELSE SocialPlatforms[CHOOSE i \in hits : \A j \in hits : i <= j]

\* re.sub(r'\?.*$', '', url).strip()
Clean_social_url(url) ==
    LET marks == {i \in 1 .. Len(url) : url[i] = "?"}
    IN  IF marks = {} THEN Strip(url)
        ELSE Strip(SubSeq(url, 1, (CHOOSE i \in marks : \A j \in marks : i <= j) - 1))

RECURSIVE SocialLoop(_, _)
\* the loop over the anchors: an anchor with an empty href is skipped, an
\* anchor that takes a branch assigns the platform's field
SocialLoop(links, social_handles) ==
    IF links = <<>> THEN social_handles
    ELSE LET href_attr == Head(links)
             branch == SocialBranch(Lower(href_attr))
         IN  IF href_attr = <<>> \/ branch = "none"
             THEN SocialLoop(Tail(links), social_handles)
             ELSE SocialLoop(Tail(links),
                     [social_handles EXCEPT ![branch] = <<Clean_social_url(href_attr)>>])

\* SocialMediaExtractor.extract
SocialExtract(links) == SocialLoop(links, NoHandles)

\* the hrefs an anchor of the page may carry
AnchorHrefs == {
    <<>>,
    <<"/", "/", "I", "n", "s", "t", "a", "g", "r", "a", "m", ".", "c", "o",
      "m", "/", "a", "?", "u", "=", "1">>,
    <<"/", "/", "i", "n", "s", "t", "a", "g", "r", "a", "m", ".", "c", "o",
      "m", "/", "b">>,
    <<"/", "/", "f", "a", "c", "e", "b", "o", "o", "k", ".", "c", "o", "m",
      "/", "a">>,
    <<"/", "/", "x", ".", "c", "o", "m", "/", "a">>,
    <<"/", "a", "b", "o", "u", "t">>}

\* the signature substrings of is_shopify_store
ShopifyIndicators == {
    <<"S", "h", "o", "p", "i", "f", "y", ".", "t", "h", "e", "m", "e">>,
    <<"s", "h", "o", "p", "i", "f", "y", ".", "c", "o", "m">>,
    <<"c", "d", "n", ".", "s", "h", "o", "p", "i", "f", "y", ".", "c", "o",
      "m">>,
    <<"S", "h", "o", "p", "i", "f", "y", ".", "s", "h", "o", "p">>,
    <<"s", "h", "o", "p", "i", "f", "y", "-", "f", "e", "a", "t", "u", "r",
      "e", "s">>,
    <<"s", "h", "o", "p", "i", "f", "y", "-", "s", "e", "c", "t", "i", "o",
      "n">>,
    <<"m", "y", "s", "h", "o", "p", "i", "f", "y", ".", "c", "o", "m">>}

MyShopifyMarker ==
    <<"m", "y", "s", "h", "o", "p", "i", "f", "y", ".", "c", "o", "m">>

\* ShopifyDetector.is_shopify_store
Is_shopify_store(html_content, url) ==
    IF html_content = <<>> THEN FALSE
    ELSE IF Contains(url, MyShopifyMarker) THEN TRUE
    ELSE \E indicator \in ShopifyIndicators :
            Contains(Lower(html_content), Lower(indicator))

\* the bodies and the URLs handed to is_shopify_store
DetectorContents == {
    <<>>,
    <<"<", "p", ">", "h", "i", "<", "/", "p", ">">>,
    <<"/", "/", "c", "d", "n", ".", "s", "h", "o", "p", "i", "f", "y", ".",
      "c", "o", "m", "/", "x">>,
    <<"S", "H", "O", "P", "I", "F", "Y", "-", "S", "E", "C", "T", "I", "O",
      "N">>}

DetectorUrls == {
    <<"/", "/", "a", ".", "m", "y", "s", "h", "o", "p", "i", "f", "y", ".",
      "c", "o", "m">>,
    <<"/", "/", "s", "h", "o", "p", ".", "e", "x", "a", "m", "p", "l", "e">>}

\* [\$₹€£¥]
CurrencySymbols == {"$", "₹", "€", "£", "¥"}

\* \d
DigitChars == {"0", "1", "2", "3", "4", "5", "6", "7", "8", "9"}

\* [\d,]
DigitOrComma == DigitChars \cup {","}

\* \s
SpaceChars == {" "}

\* the end of the longest run of characters of class cls that starts at
\* position i of s: i - 1 when the run is empty (a greedy cls*)
RunEnd(s, i, cls) ==
    CHOOSE j \in (i - 1) .. Len(s) :
        /\ \A k \in i .. j : s[k] \in cls
        /\ j = Len(s) \/ s[j + 1] \notin cls

\* [\d,]+\.?\d* at position i: the position of the last character matched,
\* 0 when it does not match
AmountEnd(s, i) ==
    LET r == RunEnd(s, i, DigitOrComma)
        d == IF r < Len(s) /\ s[r + 1] = "." THEN r + 1 ELSE r
    IN  IF r < i THEN 0 ELSE RunEnd(s, d + 1, DigitChars)

\* s[i ..] starts with the word, whatever the case (re.IGNORECASE)
StartsWithIgnoreCase(s, i, word) ==
    /\ i + Len(word) - 1 <= Len(s)
    /\ Lower(SubSeq(s, i, i + Len(word) - 1)) = word

\* the four patterns of extract_price matched at position i, in the order of
\* the list: the position of the last character matched, 0 for no match
\*   1  [\$₹€£¥][\d,]+\.?\d*        2  [\d,]+\.?\d*\s*[\$₹€£¥]
\*   3  Rs\.?\s*[\d,]+\.?\d*        4  USD\s*[\d,]+\.?\d*
MatchAt(pattern, s, i) ==
    CASE pattern = 1 ->
            IF s[i] \in CurrencySymbols THEN AmountEnd(s, i + 1) ELSE 0
      [] pattern = 2 ->
            LET a == AmountEnd(s, i)
                w == RunEnd(s, a + 1, SpaceChars)
            IN  IF a # 0 /\ w < Len(s) /\ s[w + 1] \in CurrencySymbols
                THEN w + 1 ELSE 0
      [] pattern = 3 ->
            IF StartsWithIgnoreCase(s, i, <<"r", "s">>)
            THEN LET d == IF i + 2 <= Len(s) /\ s[i + 2] = "." THEN i + 2 ELSE i + 1
                 IN  AmountEnd(s, RunEnd(s, d + 1, SpaceChars) + 1)
            ELSE 0
      [] pattern = 4 ->
            IF StartsWithIgnoreCase(s, i, <<"u", "s", "d">>)
            THEN AmountEnd(s, RunEnd(s, i + 3, SpaceChars) + 1)
            ELSE 0

PricePatterns == 1 .. 4

\* the positions of s where the pattern matches
MatchStarts(pattern, s) == {i \in 1 .. Len(s) : MatchAt(pattern, s, i) # 0}

\* re.search(pattern, text, re.IGNORECASE).group(0): the match at the leftmost
\* position where the pattern matches
SearchGroup(pattern, s) ==
    LET i == CHOOSE i \in MatchStarts(pattern, s) :
                \A j \in MatchStarts(pattern, s) : i <= j
    IN  SubSeq(s, i, MatchAt(pattern, s, i))

\* the match that starts leftmost in the text, whichever pattern it is of
LeftmostOfAnyPattern(text) ==
    LET found == {k \in PricePatterns : MatchStarts(k, text) # {}}
        start(k) == CHOOSE i \in MatchStarts(k, text) :
                        \A j \in MatchStarts(k, text) : i <= j
    IN  IF text = <<>> \/ found = {} THEN <<>>
        ELSE <<Strip(SearchGroup(
                 CHOOSE k \in found :
                     \A m \in found :
                         start(k) < start(m) \/ (start(k) = start(m) /\ k <= m),
                 text))>>

\* TextCleaner.extract_price: the patterns are tried in the order of the list
\* and the first that matches anywhere gives the result
Extract_price(text) ==
    LET found == {k \in PricePatterns : MatchStarts(k, text) # {}}
    IN  IF text = <<>> \/ found = {} THEN <<>>
        ELSE <<Strip(SearchGroup(CHOOSE k \in found : \A m \in found : k <= m, text))>>

\* the pieces the texts handed to extract_price are made of
PriceTokens ==
    {<<"R", "s">>, <<"u", "s", "d">>, <<"$">>, <<"€">>, <<"1">>, <<",">>, <<".">>,
     <<" ">>, <<"x">>}

RECURSIVE Flatten(_)
Flatten(pieces) ==
    IF pieces = <<>> THEN <<>> ELSE Head(pieces) \o Flatten(Tail(pieces))

RsExample ==
    <<"R", "s", ".", " ", "1", ",", "2", "9", "9", ".", "0", "0", " ", "o",
      "n", "l", "y">>

NoPriceExample ==
    <<"n", "o", " ", "p", "r", "i", "c", "e", " ", "h", "e", "r", "e">>

PriceTexts ==
    {Flatten(pieces) : pieces \in ListsUpTo(PriceTokens, MaxPriceTokens)}
        \cup {RsExample, NoPriceExample}

\* extract_price(text)
ExtractPriceCall ==
    /\ tpc = "input"
    /\ tKind = "price"
    /\ tPrice' = Extract_price(tText)
    /\ tpc' = "done"
    /\ UNCHANGED <<tKind, tText, tContent, tUrl, tShopify, tAnchors, tHandles,
                   tProducts, tSorted>>
    /\ TextFrame

\* is_shopify_store(html_content, url)
DetectorCall ==
    /\ tpc = "input"
    /\ tKind = "detector"
    /\ tShopify' = Is_shopify_store(tContent, tUrl)
    /\ tpc' = "done"
    /\ UNCHANGED <<tKind, tText, tPrice, tContent, tUrl, tAnchors, tHandles,
                   tProducts, tSorted>>
    /\ TextFrame

\* SocialMediaExtractor(soup, base_url).extract()
SocialCall ==
    /\ tpc = "input"
    /\ tKind = "social"
    /\ tHandles' = SocialExtract(tAnchors)
    /\ tpc' = "done"
    /\ UNCHANGED <<tKind, tText, tPrice, tContent, tUrl, tShopify, tAnchors,
                   tProducts, tSorted>>
    /\ TextFrame

\* the tag lists of the products handed to the sort: the last one holds ten
\* hero tags, the most a converted product keeps (tags[:10])
SortTagKinds ==
    {{"homepage"}, {"homepage", "featured"}, {"hero", "featured"}, {"bestseller"},
     {"sale"},
     {"hero", "featured", "main", "highlight", "spotlight", "bestseller",
      "trending", "popular", "signature", "flagship"}}

\* the i-th product of a list handed to the sort, with or without image, price
\* and description
SortProduct(i, tags, complete) ==
    ProductModel(<<"p", PoolDigits[i]>>,
                 IF complete THEN "$5" ELSE "None",
                 IF complete THEN "img" ELSE "None",
                 PoolUrls[i],
                 IF complete THEN "text" ELSE "None",
                 tags)

SortInputs ==
    {[i \in 1 .. Len(kinds) |-> SortProduct(i, kinds[i][1], kinds[i][2])] :
        kinds \in ListsUpTo(SortTagKinds \X BOOLEAN, MaxSortLen)}

\* _sort_hero_products_by_relevance(products, hero_tags)
SortCall ==
    /\ tpc = "input"
    /\ tKind = "sort"
    /\ tSorted' = Sort_hero_products_by_relevance(tProducts)
    /\ tpc' = "done"
    /\ UNCHANGED <<tKind, tText, tPrice, tContent, tUrl, tShopify, tAnchors, tHandles,
                   tProducts>>
    /\ TextFrame

TextInit ==
    /\ tpc = "input"
    /\ tPrice = <<>>
    /\ tShopify = FALSE
    /\ tHandles = NoHandles
    /\ tSorted = <<>>
    /\ \/ /\ tKind = "price"
          /\ tText \in PriceTexts
          /\ tContent = <<>> /\ tUrl = <<>> /\ tAnchors = <<>> /\ tProducts = <<>>
       \/ /\ tKind = "detector"
          /\ tContent \in DetectorContents
          /\ tUrl \in DetectorUrls
          /\ tText = <<>> /\ tAnchors = <<>> /\ tProducts = <<>>
       \/ /\ tKind = "social"
          /\ tAnchors \in ListsUpTo(AnchorHrefs, MaxAnchors)
          /\ tText = <<>> /\ tContent = <<>> /\ tUrl = <<>> /\ tProducts = <<>>
       \/ /\ tKind = "sort"
          /\ tProducts \in SortInputs
          /\ tText = <<>> /\ tContent = <<>> /\ tUrl = <<>> /\ tAnchors = <<>>
    /\ FetchIdle
    /\ DedupIdle
    /\ HeroIdle
    /\ CatalogIdle
    /\ DiscoverIdle
    /\ InsightsIdle
    /\ CompetitorIdle
    /\ ProfileIdle
    /\ AnalysisIdle

TextNext == ExtractPriceCall \/ DetectorCall \/ SocialCall \/ SortCall

SpecText == TextInit /\ [][TextNext]_vars

(***************************************************************************)
(* Claims about the three functions, checked under SpecText.               *)
(***************************************************************************)
\* the first anchor of the page, in document order, that takes the branch of
\* the platform: <<>> when none does
FirstAnchorOf(platform) ==
    LET hits == {i \in 1 .. Len(tAnchors) :
                    /\ tAnchors[i] # <<>>
                    /\ SocialBranch(Lower(tAnchors[i])) = platform}
    IN  IF hits = {} THEN <<>>
        ELSE <<Clean_social_url(tAnchors[CHOOSE i \in hits : \A j \in hits : i <= j])>>

\* C18: SocialMediaExtractor.extract keeps at most one URL per platform, and
\* the handle stored for a platform is the one of the earliest anchor of the
\* page that matches the platform: later matches do not overwrite it.
C18_FirstMatchingAnchorWins ==
    (tpc = "done" /\ tKind = "social") =>
        \A i \in 1 .. Len(SocialPlatforms) :
            /\ Len(tHandles[SocialPlatforms[i]]) <= 1
            /\ tHandles[SocialPlatforms[i]] = FirstAnchorOf(SocialPlatforms[i])

\* C19: is_shopify_store(content, url) is true exactly when the URL contains
\* 'myshopify.com' or the body contains, whatever the case, one of the
\* signature substrings; so it is true for a URL with the marker whatever the
\* content is, empty content included.
C19_ShopifyIffMarkerOrSignature ==
    (tpc = "done" /\ tKind = "detector") =>
        (tShopify <=>
            \/ Contains(tUrl, MyShopifyMarker)
            \/ \E indicator \in ShopifyIndicators :
                  Contains(Lower(tContent), Lower(indicator)))

\* the price patterns that match somewhere in the text
MatchingPatterns == {k \in PricePatterns : MatchStarts(k, tText) # {}}

\* C20: extract_price returns the text matched by the first pattern, in the
\* order symbol prefix, symbol suffix, 'Rs.' prefix, 'USD' prefix, that matches
\* anywhere in the input, and nothing when no pattern matches or the input is
\* empty; "Rs. 1,299.00 only" gives "Rs. 1,299.00" and "no price here" gives
\* nothing.
C20_FirstPatternInPriorityOrder ==
    (tpc = "done" /\ tKind = "price") =>
        /\ (tText = <<>> \/ MatchingPatterns = {}) => tPrice = <<>>
        /\ MatchingPatterns # {} =>
              LET first == CHOOSE k \in MatchingPatterns :
                               \A m \in MatchingPatterns : k <= m
              IN  /\ \A k \in PricePatterns : k < first => MatchStarts(k, tText) = {}
                  /\ \E i \in MatchStarts(first, tText) :
                        /\ \A j \in MatchStarts(first, tText) : i <= j
                        /\ tPrice = <<SubSeq(tText, i, MatchAt(first, tText, i))>>
        /\ tText = RsExample => tPrice = <<SubSeq(RsExample, 1, 12)>>
        /\ tText = NoPriceExample => tPrice = <<>>

\* a text where a pattern of lower priority matches further left than the
\* pattern whose match is returned
C20_Witness ==
    /\ tpc = "done"
    /\ tKind = "price"
    /\ tPrice # <<>>
    /\ \E k \in MatchingPatterns, m \in MatchingPatterns :
          /\ k < m
          /\ \E j \in MatchStarts(m, tText) : \A i \in MatchStarts(k, tText) : j < i

\* C22: _sort_hero_products_by_relevance places every product tagged
\* 'homepage' before every product not tagged so: the score of a homepage
\* product is strictly greater than the score of any product without the tag,
\* whatever their other tags, image, price and description.
C22_HomepageOutscoresEveryOther ==
    (tpc = "done" /\ tKind = "sort") =>
        /\ \A i, j \in 1 .. Len(tProducts) :
              (HasHomepage(tProducts[i]) /\ ~HasHomepage(tProducts[j])) =>
                  RelevanceScore(tProducts[i]) > RelevanceScore(tProducts[j])
        /\ \A i, j \in 1 .. Len(tSorted) :
              (HasHomepage(tSorted[i]) /\ ~HasHomepage(tSorted[j])) => i < j

(***************************************************************************)
(* fetch_insights, lines 84-130: the hero products, the FAQs and the       *)
(* catalog of one profile.  The store answers both fetches of              *)
(* products.json the same way.                                             *)
(***************************************************************************)
\* \w
WordChars ==
    {"a", "b", "c", "d", "e", "f", "g", "h", "i", "j", "k", "l", "m", "n", "o",
     "p", "q", "r", "s", "t", "u", "v", "w", "x", "y", "z",
     "A", "B", "C", "D", "E", "F", "G", "H", "I", "J", "K", "L", "M", "N", "O",
     "P", "Q", "R", "S", "T", "U", "V", "W", "X", "Y", "Z", "_"} \cup DigitChars

\* the characters the second substitution of clean_text keeps
KeptChars == WordChars \cup SpaceChars \cup {".", ",", "!", "?", "-", "(", ")"}

RECURSIVE CollapseSpaces(_)
\* re.sub(r'\s+', ' ', text)
CollapseSpaces(text) ==
    IF Len(text) < 2 THEN text
    ELSE IF text[1] \in SpaceChars /\ text[2] \in SpaceChars
         THEN CollapseSpaces(Tail(text))
         ELSE <<text[1]>> \o CollapseSpaces(Tail(text))

\* TextCleaner.clean_text
Clean_text(text) ==
    Strip(SelectSeq(CollapseSpaces(text), LAMBDA c : c \in KeptChars))

\* the titles of the entries of products.json
TitleHat ==
    <<"H", "a", "t">>

TitleHatPlus ==
    <<"H", "a", "t", "+">>

\* the entries of products.json: title, handle and tags
ProfileEntries ==
    {[title |-> TitleHat, handle |-> "hat", tags |-> {"homepage"}],
     [title |-> TitleHatPlus, handle |-> "hat", tags |-> {"homepage"}],
     [title |-> TitleHat, handle |-> "cap", tags |-> {}]}

\* what the store answers for products.json
ProfileJson ==
    {<<>>} \cup {<<entries>> : entries \in ListsUpTo(ProfileEntries, MaxProfileEntries)}

\* HeroProductExtractor._convert_json_to_product_model: <<>> for None
Convert_json_to_product_model(entry) ==
    IF entry.title = <<>>
       THEN <<>>
       ELSE <<ProductModel(Clean_text(entry.title), "None", "None",
                           ProductUrlOfHandle(entry.handle), "None", entry.tags)>>

RECURSIVE ConvertEntries(_)
\* `for product_data in page_products: product = convert; if product: append`
ConvertEntries(entries) ==
    IF entries = <<>> THEN <<>>
    ELSE Convert_json_to_product_model(Head(entries)) \o ConvertEntries(Tail(entries))

\* the products the main page shows in its sections, without tags
PageSectionProducts(shown) ==
    IF shown
       THEN <<ProductModel(TitleHat, "None", "None", "/products/hat", "None", {})>>
       ELSE <<>>

\* extract_async: the JSON load, the HTML load when it delivers nothing, the
\* tag filter, the position-based fallback and the limits
Extract_async(json, shown) ==
    LET from_json    == IF json = <<>> THEN <<>> ELSE ConvertEntries(json[1])
        all_products == IF from_json = <<>>
                           THEN Take(Extractor_deduplicate_products(
                                         PageSectionProducts(shown)),
                                     HeroHtmlMaxProducts)
                           ELSE from_json
    IN  ExtractTail(all_products, PageSectionProducts(shown)).result

\* _fetch_product_catalog for a store whose pages are short: nothing is
\* fetched after the first page, and a Failure leaves the list empty
Fetch_product_catalog(json) ==
    IF json = <<>> THEN <<>> ELSE ParseEntries(json[1])

\* the class tokens the first five selectors of FAQExtractor.extract name
FaqClassSelectors == <<
    <<"f", "a", "q">>,
    <<"f", "a", "q", "-", "i", "t", "e", "m">>,
    <<"a", "c", "c", "o", "r", "d", "i", "o", "n">>,
    <<"a", "c", "c", "o", "r", "d", "i", "o", "n", "-", "i", "t", "e", "m">>,
    <<"q", "u", "e", "s", "t", "i", "o", "n">>>>

\* the substring of the sixth selector, [class*="faq"]
FaqSubstring == <<"f", "a", "q">>

\* the selectors in the order of faq_selectors: 1 .. 5 by class token, 6 by
\* substring of the class attribute
FaqSelectorCount == Len(FaqClassSelectors) + 1

\* soup.select(selector) holds the element
SelectorMatches(k, element) ==
    IF k <= Len(FaqClassSelectors)
       THEN FaqClassSelectors[k] \in element.classes
       ELSE \E c \in element.classes : Contains(c, FaqSubstring)

\* _extract_single_faq, and the body of the dt/dd loop: <<>> for None
Extract_single_faq(element) ==
    IF element.question # <<>> /\ element.answer # <<>> /\ Len(element.question) > 5
       THEN <<[question |-> Clean_text(element.question),
               answer   |-> Clean_text(element.answer)]>>
       ELSE <<>>

RECURSIVE ExtractFaqsOf(_)
ExtractFaqsOf(elements) ==
    IF elements = <<>> THEN <<>>
    ELSE Extract_single_faq(Head(elements)) \o ExtractFaqsOf(Tail(elements))

RECURSIVE FaqSelectorLoop(_, _)
\* the loop over faq_selectors, from selector k on
FaqSelectorLoop(k, elements) ==
    IF k > FaqSelectorCount THEN <<>>
    ELSE ExtractFaqsOf(SelectSeq(elements,
                                 LAMBDA e : ~e.dl /\ SelectorMatches(k, e)))
             \o FaqSelectorLoop(k + 1, elements)

\* FAQExtractor.extract of modules.extractors: the selectors, then the
\* dt/dd pairs of the definition lists
Faq_extract(elements) ==
    FaqSelectorLoop(1, elements)
        \o ExtractFaqsOf(SelectSeq(elements, LAMBDA e : e.dl))

QuestionShips ==
    <<"S", "h", "i", "p", "s", "?">>

QuestionWhy ==
    <<"W", "h", "y", "?">>

AnswerYes ==
    <<"Y", "e", "s">>

\* the FAQ elements of a page: an element of class faq, one of class
\* accordion, one whose question is too short, and a dt/dd pair
FaqElements ==
    {[dl |-> FALSE, classes |-> {FaqClassSelectors[1]}, question |-> QuestionShips,
      answer |-> AnswerYes],
     [dl |-> FALSE, classes |-> {FaqClassSelectors[3]}, question |-> QuestionShips,
      answer |-> AnswerYes],
     [dl |-> FALSE, classes |-> {FaqClassSelectors[2]}, question |-> QuestionWhy,
      answer |-> AnswerYes],
     [dl |-> TRUE, classes |-> {}, question |-> QuestionShips, answer |-> AnswerYes]}

\* lines 84-87: insights.hero_products = await hero_extractor.extract_async()
ProfileHero ==
    /\ ppc = "hero"
    /\ pHero' = Extract_async(pJson, pShown)
    /\ ppc' = "faqs"
    /\ UNCHANGED <<pJson, pShown, pElements, pFaqs, pCatalog>>
    /\ ProfileFrame

\* lines 116-119: insights.faqs = faq_extractor.extract()
ProfileFaqs ==
    /\ ppc = "faqs"
    /\ pFaqs' = Faq_extract(pElements)
    /\ ppc' = "catalog"
    /\ UNCHANGED <<pJson, pShown, pElements, pHero, pCatalog>>
    /\ ProfileFrame

\* lines 126-130: insights.product_catalog = await _fetch_product_catalog(...)
ProfileCatalog ==
    /\ ppc = "catalog"
    /\ pCatalog' = Fetch_product_catalog(pJson)
    /\ ppc' = "returned"
    /\ UNCHANGED <<pJson, pShown, pElements, pHero, pFaqs>>
    /\ ProfileFrame

ProfileInit ==
    /\ ppc = "hero"
    /\ pJson \in ProfileJson
    /\ pShown \in BOOLEAN
    /\ pElements \in ListsUpTo(FaqElements, MaxFaqElements)
    /\ pHero = <<>>
    /\ pFaqs = <<>>
    /\ pCatalog = <<>>
    /\ FetchIdle
    /\ DedupIdle
    /\ HeroIdle
    /\ CatalogIdle
    /\ DiscoverIdle
    /\ InsightsIdle
    /\ CompetitorIdle
    /\ TextIdle
    /\ AnalysisIdle

ProfileNext == ProfileHero \/ ProfileFaqs \/ ProfileCatalog

SpecProfile == ProfileInit /\ [][ProfileNext]_vars

(***************************************************************************)
(* Claims about the returned profile, checked under SpecProfile.           *)
(***************************************************************************)
\* C24: in a returned profile the identity key (name, product_url) of every
\* hero product also occurs in product_catalog.
C24_CatalogHoldsEveryHeroProduct ==
    ppc = "returned" =>
        \A i \in 1 .. Len(pHero) :
            \E j \in 1 .. Len(pCatalog) : ServiceKey(pCatalog[j]) = ServiceKey(pHero[i])

\* C25: the FAQ list of a returned profile holds no two records with the same
\* question.
C25_FaqsHaveDistinctQuestions ==
    ppc = "returned" =>
        \A i, j \in 1 .. Len(pFaqs) :
            pFaqs[i].question = pFaqs[j].question => i = j

(***************************************************************************)
(* CompetitorAnalyzer.analyze_competitors: the candidates are profiled one *)
(* after the other by insights_service.fetch_insights.                     *)
(***************************************************************************)
\* the competitors find_competitors returns: n candidates in discovery order
FoundCompetitors(n) == [i \in 1 .. n |-> i]

AbortBatch(index, found) == found + 1

\* `except Exception: ... continue`: the loop goes on with the next candidate
NextAfterFailure(index, found) == index + 1

\* lines 505-513: find_competitors returns, the loop begins
AnalyzeStart(n) ==
    /\ apc = "idle"
    /\ aCompetitors' = FoundCompetitors(n)
    /\ apc' = "loop"
    /\ UNCHANGED <<aIndex, aOutcomes, aInsights, aDelayed, aResult>>
    /\ AnalysisFrame

\* lines 515-520: the loop takes the next candidate and calls fetch_insights
AnalyzeProfileStart ==
    /\ apc = "loop"
    /\ aIndex <= Len(aCompetitors)
    /\ apc' = "profiling"
    /\ UNCHANGED <<aCompetitors, aIndex, aOutcomes, aInsights, aDelayed, aResult>>
    /\ AnalysisFrame

\* lines 520-535: fetch_insights and model_dump return and the record is
\* appended, or one of them raises and the except clause continues
AnalyzeProfileEnd(ok) ==
    /\ apc = "profiling"
    /\ aOutcomes' = Append(aOutcomes, ok)
    /\ aDelayed' = FALSE
    /\ IF ok
          THEN /\ aInsights' = Append(aInsights, aCompetitors[aIndex])
               /\ apc' = "sleep"
               /\ UNCHANGED aIndex
          ELSE /\ aIndex' = NextAfterFailure(aIndex, Len(aCompetitors))
               /\ apc' = "loop"
               /\ UNCHANGED aInsights
    /\ UNCHANGED <<aCompetitors, aResult>>
    /\ AnalysisFrame

\* line 531: time.sleep(1), the last statement of the try block
AnalyzeSleep ==
    /\ apc = "sleep"
    /\ aDelayed' = TRUE
    /\ aIndex' = aIndex + 1
    /\ apc' = "loop"
    /\ UNCHANGED <<aCompetitors, aOutcomes, aInsights, aResult>>
    /\ AnalysisFrame

\* lines 537-546: the loop is over and analysis_result is returned
AnalyzeReturn ==
    /\ apc = "loop"
    /\ aIndex > Len(aCompetitors)
    /\ aResult' = [competitors_found    |-> Len(aCompetitors),
                   competitors_analyzed |-> Len(aInsights),
                   competitor_insights  |-> aInsights]
    /\ apc' = "done"
    /\ UNCHANGED <<aCompetitors, aIndex, aOutcomes, aInsights, aDelayed>>
    /\ AnalysisFrame

AnalysisInit ==
    /\ AnalysisIdle
    /\ FetchIdle
    /\ DedupIdle
    /\ HeroIdle
    /\ CatalogIdle
    /\ DiscoverIdle
    /\ InsightsIdle
    /\ CompetitorIdle
    /\ TextIdle
    /\ ProfileIdle

AnalysisNext ==
    \/ \E n \in 0 .. MaxCandidates : AnalyzeStart(n)
    \/ AnalyzeProfileStart
    \/ \E ok \in BOOLEAN : AnalyzeProfileEnd(ok)
    \/ AnalyzeSleep
    \/ AnalyzeReturn

SpecAnalysis == AnalysisInit /\ [][AnalysisNext]_vars

(***************************************************************************)
(* Claims about analyze_competitors, checked under SpecAnalysis.           *)
(***************************************************************************)
\* the candidates whose profiling succeeded, in discovery order (candidate c
\* is the c-th of the list)
ProfiledCandidates ==
    SelectSeq(SubSeq(aCompetitors, 1, Len(aOutcomes)), LAMBDA c : aOutcomes[c])

\* C28: the candidates are profiled one at a time in discovery order and a
\* failure is skipped without ending the batch: every candidate is profiled,
\* competitor_insights holds exactly those whose profiling succeeded, in
\* discovery order, competitors_analyzed is its length and is at most
\* competitors_found.
C28_FailuresSkippedBatchCompleted ==
    /\ Len(aOutcomes) \in {aIndex - 1, aIndex}
    /\ apc = "profiling" => Len(aOutcomes) = aIndex - 1
    /\ aInsights = ProfiledCandidates
    /\ apc = "done" =>
          /\ Len(aOutcomes) = Len(aCompetitors)
          /\ aResult.competitor_insights = ProfiledCandidates
          /\ aResult.competitors_analyzed = Len(aResult.competitor_insights)
          /\ aResult.competitors_found = Len(aCompetitors)
          /\ aResult.competitors_analyzed <= aResult.competitors_found

\* C28 witness: the profiling of a candidate failed, a later candidate was
\* profiled with success, and the result is returned.
C28_Witness ==
    /\ apc = "done"
    /\ \E i, j \in 1 .. Len(aOutcomes) : i < j /\ ~aOutcomes[i] /\ aOutcomes[j]
    /\ aResult.competitors_analyzed < aResult.competitors_found

\* C29: whenever the profiling of a candidate after the first begins, the
\* inter-candidate delay has been observed since the profiling of the
\* candidate before it ended, whether that profiling succeeded or failed.
C29_DelayBetweenCandidates ==
    (apc = "profiling" /\ aIndex > 1) => aDelayed

====
